---- MODULE Spec2Model ----
(***************************************************************************)
(* Rhythm lane, score/combo state machine and dance-session orchestration  *)
(* of the dancing game.                                                    *)
(*                                                                         *)
(* Number representation.  Times (AudioContext.currentTime, hitTime, dt)   *)
(* are integers counting ticks of 50 ms (20 ticks = 1 s).  The fractional  *)
(* score quantities comboMultiplier and crowdHype are fixed-point integers *)
(* with ONE units per 1.0.  Counters are plain integers.                   *)
(*                                                                         *)
(* Specifications.  SpecLane: any interleaving of the calls of             *)
(* RhythmEngine.  SpecScore: any sequence of registerRhythmHit and         *)
(* tickScore calls.  Spec: one dance screen from its construction to the   *)
(* navigation away, with the audio clock and the wall clock running at the *)
(* same rate, the scheduler interval (25 ms) and the frame loop each       *)
(* running at least once per tick, and a due timer firing within its tick. *)
(* SpecChallenge, SpecProgress and SpecBeat: the challenge generator, the   *)
(* challenge tracker and the beat scheduler of sounds.ts, each alone.       *)
(* SpecTap: taps at every x on and around the canvas.  SpecGrade: the       *)
(* results overlay of rounds of every mix of judgments.  SpecLaneLive: a    *)
(* running lane whose update is called again and again as the audio clock   *)
(* advances.  SpecFrames: the targets of a song and any taps, with frame    *)
(* updates at times of any choice, next to a run with a frame before every  *)
(* tap.                                                                     *)
(***************************************************************************)
EXTENDS Integers, Sequences, FiniteSets, TLC

VARIABLES
    song,           \* state.selectedSong: [bpm, beatPattern, barCount]
    now,            \* AudioContext.currentTime, in ticks
    targets,        \* RhythmEngine.targets
    idCounter,      \* RhythmEngine.idCounter
    running,        \* RhythmEngine.running
    onMissCbs,      \* RhythmEngine.onMissCbs (listener ids, in call order)
    beatCount,      \* BeatEngine.beatCount: the index of the next beat
    score,          \* the ScoreState of the session
    op,             \* observation: the last operation, its arguments, its results
    prevTargets,    \* observation: RhythmEngine.targets before the last operation
    fate,           \* observation: per target id, its last state and its judgments
    prevScore,      \* observation: the ScoreState before the last operation
    streak,         \* observation: non-miss judgments registered since the last miss
    tally,          \* observation: the judgments registered so far, by rating
    today,          \* dance.ts today: the date string, as character codes
    generated,      \* the calls of generateDailyChallenge made so far, with their results
    engines,        \* the BeatEngines that SoundSystem holds or whose interval is set
    beatEngine,     \* SoundSystem.beatEngine: a position in engines, or Null
    prevSound,      \* observation: engines and beatEngine before the last operation
    delivered,      \* observation: the listener calls made by the last operation, in order
    grade,          \* the letter on the results overlay, "" while there is none
    updateCallbacks, \* GameEngine.updateCallbacks: the number of frame listeners of the session
    pointerHandlers, \* the pointerdown listeners of the session on the canvas
    refTargets,     \* a second RhythmEngine given the same beats and taps, updated only at the end
    refFate,        \* observation: fate, for the second engine
    refScore,       \* the ScoreState fed by the judgments of the second engine
    audioStarted,   \* dance.ts audioStarted
    initialized,    \* SoundSystem.initialized
    engineOn,       \* SoundSystem.beatEngine is set and its interval is running
    nextBeatTime,   \* BeatEngine.nextBeatTime
    beatCallbacks,  \* BeatEngine.beatCallbacks: the number of listeners
    beatsScheduled, \* dance.ts beatsScheduled
    roundEndTriggered, \* dance.ts roundEndTriggered
    roundEndTimerId,   \* dance.ts roundEndTimerId: Null or the time the timer is due
    timerArmed,     \* the round-end timer is set, neither fired nor cleared
    peakCombo,      \* dance.ts peakCombo
    completion,     \* the getChallengeCompletion promise: "pending" or "settled"
    challengeProgress, \* dance.ts challengeProgress: NullProgress or a ChallengeProgress
    challengeRewarded, \* dance.ts challengeRewarded
    screen,         \* main.ts currentScreen
    overlay,        \* showResultsOverlay: "none", "awaiting" (in submitScore), "shown"
    submitted,      \* the scores handed to dataService.submitScore, in order
    bonuses,        \* the session bonuses added to crowdHype, in order
    polled,         \* the scheduler interval has fired since the clock last advanced
    frameGap        \* ticks since the last frame

laneVars == <<targets, idCounter, running, onMissCbs, beatCount>>
laneObs == <<prevTargets, fate>>
scoreVars == <<score, prevScore, streak, tally>>
audioVars == <<initialized, engineOn, nextBeatTime, beatCallbacks, polled>>
roundVars == <<audioStarted, beatsScheduled, roundEndTriggered, roundEndTimerId, timerArmed,
               peakCombo, screen, overlay, submitted, bonuses, frameGap>>
challengeVars == <<today, completion, challengeProgress, challengeRewarded>>
sessionVars == <<audioVars, roundVars, challengeVars>>
soundVars == <<engines, beatEngine, prevSound, delivered>>
handlers == <<updateCallbacks, pointerHandlers>>
refVars == <<refTargets, refFate, refScore>>
vars == <<song, now, laneVars, scoreVars, op, laneObs, sessionVars, generated, soundVars, grade, handlers, refVars>>

-----------------------------------------------------------------------------
(* Bounds of the exploration *)

MaxNow == 23         \* last clock tick explored
MaxBeatTime == 1     \* latest beatTime handed to onBeatFired in the lane runs
MaxCbs == 1          \* onMiss listeners registered
CanvasW == 3         \* width of the canvas
CanvasH == 5         \* height of the canvas
MaxAttempts == 17    \* judgments registered per score run
MaxGoods == 1        \* of them rated good
MaxMisses == 2       \* of them misses
MaxTickTime == 2     \* total frame time handed to tickScore per score run
MaxLateAttempts == 1 \* judgments registered before getChallengeCompletion settles
MaxSilentNow == 2    \* ticks explored of a session whose audio could not be started
MaxGradeAttempts == 20   \* judgments of a round whose results are graded

-----------------------------------------------------------------------------
(* rhythm.ts: constants, in ticks of 50 ms *)

PERFECT_WINDOW == 1
GOOD_WINDOW == 3
TRAVEL_BEATS == 4
GRACE_SEC == 5

\* Ticks in one second
TicksPerSecond == 20

\* this.secPerBeat = 60 / bpm
secPerBeat(bpm) == (60 * TicksPerSecond) \div bpm

\* A TapZone `${row}-${col}` is the sequence of its two words.
Zone(row, col) == <<row, col>>

TapZones == { Zone(r, c) : r \in {"upper", "lower"}, c \in {"left", "center", "right"} }

\* String.prototype.includes on a zone
Includes(zone, word) == \E i \in DOMAIN zone : zone[i] = word

\* Mutant of zoneColumn: the test for 'right' is missing
zoneColumn_noRight(zone) == IF Includes(zone, "left") THEN "left" ELSE "center"

zoneColumn(zone) ==
    IF Includes(zone, "left") THEN "left"
    ELSE IF Includes(zone, "right") THEN "right"
    ELSE "center"

\* Mutant of columnFromX: the two boundaries belong to the column on their left
columnFromX_inclusive(x) ==
    IF 3 * x <= CanvasW THEN "left"
    ELSE IF 3 * x <= 2 * CanvasW THEN "center"
    ELSE "right"

\* col = canvasW / 3; x < col; x < col * 2  (both sides multiplied by 3)
columnFromX(x) ==
    IF 3 * x < CanvasW THEN "left"
    ELSE IF 3 * x < 2 * CanvasW THEN "center"
    ELSE "right"

Abs(x) == IF x < 0 THEN -x ELSE x

NoResult == [rating |-> "none", zone |-> <<>>, targetId |-> -2]

\* Mutant of Better: an equal delta replaces the best so far (the last one wins a tie)
Better_lastWins(delta, acc) == delta <= GOOD_WINDOW /\ (acc.inf \/ delta <= acc.bestDelta)

\* The test of the scan of tryHit that makes a target the best so far:
\* delta <= GOOD_WINDOW && delta < bestDelta (acc.inf: bestDelta is still Infinity)
Better(delta, acc) == delta <= GOOD_WINDOW /\ (acc.inf \/ delta < acc.bestDelta)

\* The scan of tryHit: acc.best is an index into ts (0: null)
RECURSIVE ScanBest(_, _, _, _, _)
ScanBest(ts, col, audioNow, i, acc) ==
    IF i > Len(ts) THEN acc
    ELSE
        LET t == ts[i]
            delta == Abs(audioNow - t.hitTime)
        IN  IF t.state # "active" THEN ScanBest(ts, col, audioNow, i + 1, acc)
            ELSE IF zoneColumn(t.zone) # col THEN ScanBest(ts, col, audioNow, i + 1, acc)
            ELSE IF Better(delta, acc)
                 THEN ScanBest(ts, col, audioNow, i + 1,
                               [best |-> i, bestDelta |-> delta, inf |-> FALSE])
                 ELSE ScanBest(ts, col, audioNow, i + 1, acc)

\* Mutant of Rate: the perfect window excludes its boundary
Rate_strict(bestDelta) == IF bestDelta < PERFECT_WINDOW THEN "perfect" ELSE "good"

\* rating = bestDelta <= PERFECT_WINDOW ? 'perfect' : 'good'
Rate(bestDelta) == IF bestDelta <= PERFECT_WINDOW THEN "perfect" ELSE "good"

\* RhythmEngine.tryHit: the targets afterwards and the returned result
tryHit(ts, tapX, tapY, audioNow) ==
    LET col == columnFromX(tapX)
        r == ScanBest(ts, col, audioNow, 1, [best |-> 0, bestDelta |-> 0, inf |-> TRUE])
    IN  IF r.best = 0 THEN [targets |-> ts, result |-> NoResult]
        ELSE [targets |-> [ts EXCEPT ![r.best].state = "hit"],
              result |-> [rating |-> Rate(r.bestDelta), zone |-> ts[r.best].zone,
                          targetId |-> ts[r.best].id]]

\* this.railY = canvasH * 0.62; row = tapY < this.railY ? 'upper' : 'lower'
RowFromY(y) == IF 100 * y < 62 * CanvasH THEN "upper" ELSE "lower"

\* RhythmEngine.getTapZone
getTapZone(tapX, tapY) == Zone(RowFromY(tapY), columnFromX(tapX))

\* Mutant of AutoMissed: the grace period is missing, a target is missed once it is late
AutoMissed_noGrace(t, audioNow) == t.state = "active" /\ audioNow > t.hitTime

\* Mutant of AutoMissed: no target is ever past its grace period
AutoMissed_never(t, audioNow) == FALSE

\* Mutant of AutoMissed: the state of the target is not looked at
AutoMissed_anyState(t, audioNow) == audioNow > t.hitTime + GRACE_SEC

\* Mutant of AutoMissed: a target is missed already at the end of its grace period
AutoMissed_atGrace(t, audioNow) == t.state = "active" /\ audioNow >= t.hitTime + GRACE_SEC

\* The auto-miss branch of update is taken for this target
AutoMissed(t, audioNow) == t.state = "active" /\ audioNow > t.hitTime + GRACE_SEC

\* The state a target has after the loop body of update
UpdatedState(t, audioNow) == IF AutoMissed(t, audioNow) THEN "missed" ELSE t.state

\* Whether update puts the target on toRemove
Removed(t, audioNow) == t.state # "active" \/ AutoMissed(t, audioNow)

RECURSIVE Misses(_, _, _, _)
\* The onMiss calls of update, in order: per newly missed target, every listener
Misses(ts, audioNow, cbs, i) ==
    IF i > Len(ts) THEN <<>>
    ELSE
        LET t == ts[i]
            calls == IF AutoMissed(t, audioNow)
                     THEN [k \in 1..Len(cbs) |-> [cb |-> cbs[k], zone |-> t.zone, id |-> t.id]]
                     ELSE <<>>
        IN  calls \o Misses(ts, audioNow, cbs, i + 1)

RECURSIVE Keep(_, _, _)
\* this.targets after the toRemove filtering
Keep(ts, audioNow, i) ==
    IF i > Len(ts) THEN <<>>
    ELSE (IF Removed(ts[i], audioNow) THEN <<>> ELSE <<ts[i]>>) \o Keep(ts, audioNow, i + 1)

\* RhythmEngine.update: the targets afterwards, the judged states and the onMiss calls
update(ts, audioNow, cbs) ==
    [targets |-> Keep(ts, audioNow, 1),
     judged |-> [i \in 1..Len(ts) |-> [ts[i] EXCEPT !.state = UpdatedState(ts[i], audioNow)]],
     misses |-> Misses(ts, audioNow, cbs, 1)]

\* Mutant of spawnTarget: idCounter is not incremented
spawnTarget_reuseId(ts, ids, zone, hitTime) ==
    [targets |-> Append(ts, [id |-> ids, zone |-> zone, hitTime |-> hitTime, state |-> "active"]),
     idCounter |-> ids]

\* RhythmEngine.spawnTarget
spawnTarget(ts, ids, zone, hitTime) ==
    [targets |-> Append(ts, [id |-> ids, zone |-> zone, hitTime |-> hitTime, state |-> "active"]),
     idCounter |-> ids + 1]

RECURSIVE SpawnAll(_, _, _, _, _)
SpawnAll(ts, ids, zones, hitTime, i) ==
    IF i > Len(zones) THEN [targets |-> ts, idCounter |-> ids]
    ELSE LET s == spawnTarget(ts, ids, zones[i], hitTime)
         IN  SpawnAll(s.targets, s.idCounter, zones, hitTime, i + 1)

\* RhythmEngine.onBeatFired
onBeatFired(ts, ids, isRunning, sg, beatNum, beatTime) ==
    IF ~isRunning THEN [targets |-> ts, idCounter |-> ids]
    ELSE
        LET zones == sg.beatPattern[(beatNum % Len(sg.beatPattern)) + 1]
        IN  SpawnAll(ts, ids, zones, beatTime + TRAVEL_BEATS * secPerBeat(sg.bpm), 1)

\* Mutant of stop: the targets stay in the lane
stop_keepTargets(ts) == [running |-> FALSE, targets |-> ts]

\* RhythmEngine.stop: running and this.targets afterwards; no listener is called
stop(ts) == [running |-> FALSE, targets |-> <<>>]

-----------------------------------------------------------------------------
(* scoring.ts: the score/combo state machine *)

\* The fixed-point representation of 1.0
ONE == 200

\* Math.round and Math.floor of a fixed-point number, as integers
MathRound(x) == (2 * x + ONE) \div (2 * ONE)
MathFloor(x) == x \div ONE

Max(a, b) == IF a > b THEN a ELSE b
Min(a, b) == IF a < b THEN a ELSE b

createScoreState ==
    [crowdHype |-> 0, combo |-> 0, comboMultiplier |-> ONE, totalScore |-> 0,
     perfectHits |-> 0, goodHits |-> 0, totalHitAttempts |-> 0, consecutivePerfects |-> 0]

\* Mutant of MultiplierOf: the multiplier is not capped at 5.0
MultiplierOf_noCap(combo) == ONE + combo * (ONE \div 4)

\* Math.min(5.0, 1.0 + combo * 0.25)
MultiplierOf(combo) == Min(5 * ONE, ONE + combo * (ONE \div 4))

\* Mutant of RegisterMiss: the multiplier is not floored at 1.0
RegisterMiss_noFloor(s) ==
    LET s1 == [s EXCEPT !.combo = 0, !.consecutivePerfects = 0,
                        !.comboMultiplier = s.comboMultiplier - ONE \div 2]
    IN  [score |-> [s1 EXCEPT !.totalScore = MathFloor(s1.crowdHype)], points |-> 0]

\* Mutant of RegisterMiss: a miss does not end the run of perfects
RegisterMiss_keepRun(s) ==
    LET s1 == [s EXCEPT !.combo = 0,
                        !.comboMultiplier = Max(ONE, s.comboMultiplier - ONE \div 2)]
    IN  [score |-> [s1 EXCEPT !.totalScore = MathFloor(s1.crowdHype)], points |-> 0]

\* The 'miss' branch of registerRhythmHit, after totalHitAttempts++
RegisterMiss(s) ==
    LET s1 == [s EXCEPT !.combo = 0, !.consecutivePerfects = 0,
                        !.comboMultiplier = Max(ONE, s.comboMultiplier - ONE \div 2)]
    IN  [score |-> [s1 EXCEPT !.totalScore = MathFloor(s1.crowdHype)], points |-> 0]

\* Mutant of RegisterHit: the points use the multiplier of the incremented combo
RegisterHit_newMultiplier(s, rating) ==
    LET base == IF rating = "perfect" THEN 300 ELSE 100
        s3 == [s EXCEPT !.combo = s.combo + 1]
        s4 == [s3 EXCEPT !.comboMultiplier = MultiplierOf(s3.combo)]
        points == MathRound(base * s4.comboMultiplier)
        s1 == [s4 EXCEPT !.crowdHype = s4.crowdHype + points * ONE]
        s2 == [s1 EXCEPT !.totalScore = MathFloor(s1.crowdHype)]
        s5 == IF rating = "perfect"
              THEN [s2 EXCEPT !.perfectHits = s2.perfectHits + 1,
                              !.consecutivePerfects = s2.consecutivePerfects + 1]
              ELSE [s2 EXCEPT !.goodHits = s2.goodHits + 1, !.consecutivePerfects = 0]
    IN  [score |-> s5, points |-> points]

\* Mutant of RegisterHit: the multiplier is raised by 0.25 instead of recomputed
RegisterHit_increment(s, rating) ==
    LET base == IF rating = "perfect" THEN 300 ELSE 100
        points == MathRound(base * s.comboMultiplier)
        s1 == [s EXCEPT !.crowdHype = s.crowdHype + points * ONE]
        s2 == [s1 EXCEPT !.totalScore = MathFloor(s1.crowdHype)]
        s3 == [s2 EXCEPT !.combo = s2.combo + 1]
        s4 == [s3 EXCEPT !.comboMultiplier = Min(5 * ONE, s3.comboMultiplier + ONE \div 4)]
        s5 == IF rating = "perfect"
              THEN [s4 EXCEPT !.perfectHits = s4.perfectHits + 1,
                              !.consecutivePerfects = s4.consecutivePerfects + 1]
              ELSE [s4 EXCEPT !.goodHits = s4.goodHits + 1, !.consecutivePerfects = 0]
    IN  [score |-> s5, points |-> points]

\* Mutant of RegisterHit: a good hit does not reset consecutivePerfects
RegisterHit_keepRun(s, rating) ==
    LET base == IF rating = "perfect" THEN 300 ELSE 100
        points == MathRound(base * s.comboMultiplier)
        s1 == [s EXCEPT !.crowdHype = s.crowdHype + points * ONE]
        s2 == [s1 EXCEPT !.totalScore = MathFloor(s1.crowdHype)]
        s3 == [s2 EXCEPT !.combo = s2.combo + 1]
        s4 == [s3 EXCEPT !.comboMultiplier = MultiplierOf(s3.combo)]
        s5 == IF rating = "perfect"
              THEN [s4 EXCEPT !.perfectHits = s4.perfectHits + 1,
                              !.consecutivePerfects = s4.consecutivePerfects + 1]
              ELSE [s4 EXCEPT !.goodHits = s4.goodHits + 1]
    IN  [score |-> s5, points |-> points]

\* The perfect/good branch of registerRhythmHit, after totalHitAttempts++
RegisterHit(s, rating) ==
    LET base == IF rating = "perfect" THEN 300 ELSE 100
        points == MathRound(base * s.comboMultiplier)
        s1 == [s EXCEPT !.crowdHype = s.crowdHype + points * ONE]
        s2 == [s1 EXCEPT !.totalScore = MathFloor(s1.crowdHype)]
        s3 == [s2 EXCEPT !.combo = s2.combo + 1]
        s4 == [s3 EXCEPT !.comboMultiplier = MultiplierOf(s3.combo)]
        s5 == IF rating = "perfect"
              THEN [s4 EXCEPT !.perfectHits = s4.perfectHits + 1,
                              !.consecutivePerfects = s4.consecutivePerfects + 1]
              ELSE [s4 EXCEPT !.goodHits = s4.goodHits + 1, !.consecutivePerfects = 0]
    IN  [score |-> s5, points |-> points]

\* registerRhythmHit(score, hit): the state afterwards and the points returned
registerRhythmHit(s, rating) ==
    LET s0 == [s EXCEPT !.totalHitAttempts = s.totalHitAttempts + 1]
    IN  IF rating = "miss" THEN RegisterMiss(s0) ELSE RegisterHit(s0, rating)

\* Mutant of tickScore: the multiplier decays whatever the combo
tickScore_decayAlways(s, dt, move) ==
    [s EXCEPT !.comboMultiplier =
                 Max(ONE, s.comboMultiplier - (dt * ONE) \div (10 * TicksPerSecond))]

\* tickScore(score, dt, _currentMove): dt * 0.1 with dt in ticks
tickScore(s, dt, move) ==
    IF s.combo = 0
    THEN [s EXCEPT !.comboMultiplier =
                      Max(ONE, s.comboMultiplier - (dt * ONE) \div (10 * TicksPerSecond))]
    ELSE s

\* Mutant of calculateSessionBonus: the ratio is rounded down
calculateSessionBonus_floor(s) ==
    IF s.totalHitAttempts = 0 THEN 0
    ELSE (500 * s.perfectHits) \div s.totalHitAttempts

\* calculateSessionBonus(score): Math.round(ratio * 500)
calculateSessionBonus(s) ==
    IF s.totalHitAttempts = 0 THEN 0
    ELSE (2 * 500 * s.perfectHits + s.totalHitAttempts) \div (2 * s.totalHitAttempts)

-----------------------------------------------------------------------------
(* Daily challenge (scoring.ts) *)

Null == -1

\* A 32-bit integer as two 16-bit halves
Half == 65536

\* ((hash << 5) - hash + code) | 0, on the unsigned halves of hash
HashStep(h, code) ==
    LET lo == 31 * h.lo + code
    IN  [hi |-> (31 * h.hi + lo \div Half) % Half, lo |-> lo % Half]

RECURSIVE HashLoop(_, _, _)
\* the loop over dateStr.charCodeAt(i), from position i
HashLoop(dateStr, i, h) ==
    IF i > Len(dateStr) THEN h ELSE HashLoop(dateStr, i + 1, HashStep(h, dateStr[i]))

\* Math.abs of the signed 32-bit value held in the halves of h
MathAbs32(h) ==
    IF h.hi < Half \div 2 THEN h
    ELSE [hi |-> (Half - 1 - h.hi) + (IF h.lo = 0 THEN 1 ELSE 0), lo |-> (Half - h.lo) % Half]

\* Mutant of HashMod8: the residue is taken modulo 16
HashMod8_mod16(h) == h.lo % 16

\* hash % 8
HashMod8(h) == h.lo % 8

RECURSIVE Decimal(_)
\* `${n}`: the decimal digits of a natural number
Decimal(n) == IF n < 10 THEN <<n>> ELSE Append(Decimal(n \div 10), n % 10)

\* Mutant of generateDailyChallenge: the hash starts from the number of earlier calls
generateDailyChallenge_counted(dateStr) ==
    LET hash == MathAbs32(HashLoop(dateStr, 1, [hi |-> 0, lo |-> Len(generated)]))
        streakCount == 5 + HashMod8(hash)
        scoreTarget == (2 + HashMod8(hash)) * 500
    IN  [date |-> dateStr,
         description |-> <<"Land ", Decimal(streakCount), " perfect hits in a row! Score ",
                           Decimal(scoreTarget), "+ Hype.">>,
         conditions |-> << [type |-> "hit_streak", count |-> streakCount],
                           [type |-> "score", targetScore |-> scoreTarget] >>,
         rewardPoints |-> 500 + streakCount * 100]

\* Mutant of generateDailyChallenge: the score target is derived from hash >> 4
generateDailyChallenge_shifted(dateStr) ==
    LET hash == MathAbs32(HashLoop(dateStr, 1, [hi |-> 0, lo |-> 0]))
        streakCount == 5 + HashMod8(hash)
        scoreTarget == (2 + ((hash.lo \div 16) % 8)) * 500
    IN  [date |-> dateStr,
         description |-> <<"Land ", Decimal(streakCount), " perfect hits in a row! Score ",
                           Decimal(scoreTarget), "+ Hype.">>,
         conditions |-> << [type |-> "hit_streak", count |-> streakCount],
                           [type |-> "score", targetScore |-> scoreTarget] >>,
         rewardPoints |-> 500 + streakCount * 100]

\* generateDailyChallenge(dateStr); the description is the sequence of the parts of the
\* template literal
generateDailyChallenge(dateStr) ==
    LET hash == MathAbs32(HashLoop(dateStr, 1, [hi |-> 0, lo |-> 0]))
        streakCount == 5 + HashMod8(hash)
        scoreTarget == (2 + HashMod8(hash)) * 500
    IN  [date |-> dateStr,
         description |-> <<"Land ", Decimal(streakCount), " perfect hits in a row! Score ",
                           Decimal(scoreTarget), "+ Hype.">>,
         conditions |-> << [type |-> "hit_streak", count |-> streakCount],
                           [type |-> "score", targetScore |-> scoreTarget] >>,
         rewardPoints |-> 500 + streakCount * 100]

\* conds.find(c => c.type === type): the positions of the first condition of that type
Find(conds, type) ==
    { i \in 1..Len(conds) :
        conds[i].type = type /\ \A j \in 1..(i - 1) : conds[j].type # type }

\* createChallengeProgress(challenge)
createChallengeProgress ==
    [isNull |-> FALSE, consecutivePerfects |-> 0, bestStreak |-> 0, scoreReached |-> FALSE,
     completed |-> FALSE]

\* let challengeProgress: ChallengeProgress | null = null
NullProgress == [createChallengeProgress EXCEPT !.isNull = TRUE]

\* Mutant of TrackStreak: a good or a miss also resets bestStreak
TrackStreak_resetBest(progress, rating) ==
    IF rating = "perfect"
    THEN [progress EXCEPT
            !.consecutivePerfects = progress.consecutivePerfects + 1,
            !.bestStreak = Max(progress.bestStreak, progress.consecutivePerfects + 1)]
    ELSE IF rating \in {"miss", "good"}
    THEN [progress EXCEPT !.consecutivePerfects = 0, !.bestStreak = 0]
    ELSE progress

\* updateChallengeProgress: "Track perfect streak"
TrackStreak(progress, rating) ==
    IF rating = "perfect"
    THEN [progress EXCEPT
            !.consecutivePerfects = progress.consecutivePerfects + 1,
            !.bestStreak = Max(progress.bestStreak, progress.consecutivePerfects + 1)]
    ELSE IF rating \in {"miss", "good"}
    THEN [progress EXCEPT !.consecutivePerfects = 0]
    ELSE progress

\* updateChallengeProgress: "Check score condition"
CheckScore(progress, conds, s) ==
    IF \E i \in 1..Len(conds) :
          /\ conds[i].type = "score"
          /\ conds[i].targetScore # 0
          /\ s.totalScore >= conds[i].targetScore
    THEN [progress EXCEPT !.scoreReached = TRUE]
    ELSE progress

\* Mutant of CheckCompletion: one of the two conditions is enough
CheckCompletion_either(progress, conds) ==
    LET streakDone == \A i \in Find(conds, "hit_streak") :
                          progress.bestStreak >= conds[i].count
        scoreDone == Find(conds, "score") = {} \/ progress.scoreReached
    IN  IF streakDone \/ scoreDone
        THEN [progress EXCEPT !.completed = TRUE]
        ELSE progress

\* updateChallengeProgress: "Check completion"
CheckCompletion(progress, conds) ==
    LET streakDone == \A i \in Find(conds, "hit_streak") :
                          progress.bestStreak >= conds[i].count
        scoreDone == Find(conds, "score") = {} \/ progress.scoreReached
    IN  IF streakDone /\ scoreDone
        THEN [progress EXCEPT !.completed = TRUE]
        ELSE progress

\* Mutant of updateChallengeProgress: the early return on progress.completed is missing
updateChallengeProgress_noReturn(progress, challenge, s, rating) ==
    CheckCompletion(CheckScore(TrackStreak(progress, rating), challenge.conditions, s),
                    challenge.conditions)

\* updateChallengeProgress(progress, score, rating)
updateChallengeProgress(progress, challenge, s, rating) ==
    IF progress.completed THEN progress
    ELSE CheckCompletion(CheckScore(TrackStreak(progress, rating), challenge.conditions, s),
                         challenge.conditions)

-----------------------------------------------------------------------------
(* Observation of the last operation *)

\* The judgments by rating, and the perfects registered since the last good or miss
NoTally == [perfect |-> 0, good |-> 0, miss |-> 0, run |-> 0]

\* tally after one more judgment
TallyAfter(t, rating) ==
    [perfect |-> t.perfect + (IF rating = "perfect" THEN 1 ELSE 0),
     good |-> t.good + (IF rating = "good" THEN 1 ELSE 0),
     miss |-> t.miss + (IF rating = "miss" THEN 1 ELSE 0),
     run |-> IF rating = "perfect" THEN t.run + 1 ELSE 0]

\* tally after n misses
TallyMisses(t, n) == IF n = 0 THEN t ELSE [t EXCEPT !.miss = t.miss + n, !.run = 0]

NoOp ==
    [name |-> "init", tapX |-> 0, tapY |-> 0, audioNow |-> 0, beatNum |-> 0, beatTime |-> 0,
     result |-> NoResult, misses |-> <<>>, rating |-> "none", points |-> 0, dt |-> 0,
     seenBefore |-> {}, before |-> NullProgress, engine |-> 0, reference |-> NoResult]

IdsOf(ts) == { ts[i].id : i \in 1..Len(ts) }

\* fate after an operation that found the targets `before`, left them in the states of
\* `judged`, returned `result` from tryHit and made the onMiss calls `misses`
FateAfter(f, before, judged, result, misses) ==
    [id \in DOMAIN f \cup IdsOf(judged) |->
        LET old == IF id \in DOMAIN f THEN f[id]
                   ELSE [state |-> "active", hits |-> 0, missed |-> 0, reported |-> FALSE]
            here == { i \in 1..Len(judged) : judged[i].id = id }
            st == IF here = {} THEN old.state ELSE judged[CHOOSE i \in here : TRUE].state
            was == { i \in 1..Len(before) : before[i].id = id }
            stWas == IF was = {} THEN old.state ELSE before[CHOOSE i \in was : TRUE].state
        IN  [state |-> st,
             hits |-> old.hits + (IF result.targetId = id THEN 1 ELSE 0),
             missed |-> old.missed + (IF st = "missed" /\ stWas # "missed" THEN 1 ELSE 0),
             reported |-> old.reported \/ \E j \in 1..Len(misses) : misses[j].id = id]]

\* The session part of the state when the dance screen has been built
\* No BeatEngine has been constructed
SoundFresh ==
    /\ engines = <<>>
    /\ beatEngine = Null
    /\ prevSound = [engines |-> <<>>, beatEngine |-> Null]
    /\ delivered = <<>>

SessionFresh ==
    /\ generated = <<>>
    /\ refTargets = <<>>
    /\ refFate = [id \in {} |-> 0]
    /\ refScore = createScoreState
    /\ updateCallbacks = 1
    /\ pointerHandlers = 1
    /\ grade = ""
    /\ SoundFresh
    /\ audioStarted = FALSE
    /\ initialized = FALSE
    /\ engineOn = FALSE
    /\ nextBeatTime = 0
    /\ beatCallbacks = 0
    /\ beatsScheduled = 0
    /\ roundEndTriggered = FALSE
    /\ roundEndTimerId = Null
    /\ timerArmed = FALSE
    /\ peakCombo = ONE
    /\ completion = "pending"
    /\ challengeProgress = NullProgress
    /\ challengeRewarded = FALSE
    /\ screen = "dance"
    /\ overlay = "none"
    /\ submitted = <<>>
    /\ bonuses = <<>>
    /\ polled = FALSE
    /\ frameGap = 0

-----------------------------------------------------------------------------
(* The lane alone: any interleaving of the calls of RhythmEngine *)

UL == Zone("upper", "left")
LL == Zone("lower", "left")
UC == Zone("upper", "center")
UR == Zone("upper", "right")

\* Songs at 300 bpm: two bars of a one-zone slot and an empty slot (the third beat
\* wraps around to the first slot), and one bar of a two-zone slot and an empty slot
LaneSongs ==
    { [bpm |-> 300, barCount |-> 2, beatPattern |-> << <<UL>>, <<>> >>],
      [bpm |-> 300, barCount |-> 1, beatPattern |-> << <<LL, UR>>, <<>> >>] }

\* dance.ts: TOTAL_BEATS = song.barCount * song.beatPattern.length
TOTAL_BEATS(sg) == sg.barCount * Len(sg.beatPattern)

\* The audio times at which the lane is called: from shortly before the first target
\* can be hit, never going back
AudioNows ==
    { a \in (TRAVEL_BEATS * secPerBeat(song.bpm) - GOOD_WINDOW - 1) .. MaxNow : a >= now }

\* Taps left of the canvas, in its middle and right of it; above and below the rail
TapXs == {-1, CanvasW \div 2, CanvasW + 1}
TapYs == {0, CanvasH}

InitLane ==
    /\ song \in LaneSongs
    /\ now = 0
    /\ beatCount = 0
    /\ targets = <<>>
    /\ idCounter = 0
    /\ running = FALSE
    /\ onMissCbs = <<>>
    /\ score = createScoreState
    /\ prevScore = createScoreState
    /\ streak = 0
    /\ tally = NoTally
    /\ op = NoOp
    /\ prevTargets = <<>>
    /\ fate = [id \in {} |-> 0]
    /\ today = <<>>
    /\ SessionFresh

\* RhythmEngine.start
LaneStart ==
    /\ running' = TRUE
    /\ op' = [NoOp EXCEPT !.name = "start"]
    /\ prevTargets' = targets
    /\ UNCHANGED <<song, generated, refVars, handlers, soundVars, grade, now, targets, idCounter, onMissCbs, beatCount, scoreVars, sessionVars, fate>>

\* RhythmEngine.stop
LaneStop ==
    /\ running' = stop(targets).running
    /\ targets' = stop(targets).targets
    /\ op' = [NoOp EXCEPT !.name = "stop"]
    /\ prevTargets' = targets
    /\ UNCHANGED <<song, generated, refVars, handlers, soundVars, grade, now, idCounter, onMissCbs, beatCount, scoreVars, sessionVars, fate>>

\* RhythmEngine.destroy: stop(), then the rail graphics leave the stage
LaneDestroy ==
    /\ running' = stop(targets).running
    /\ targets' = stop(targets).targets
    /\ op' = [NoOp EXCEPT !.name = "destroy"]
    /\ prevTargets' = targets
    /\ UNCHANGED <<song, generated, refVars, handlers, soundVars, grade, now, idCounter, onMissCbs, beatCount, scoreVars, sessionVars, fate>>

\* RhythmEngine.onBeatFired(beatNum, beatTime), for the beats of one round in order
LaneBeat(beatTime) ==
    LET beatNum == beatCount
        r == onBeatFired(targets, idCounter, running, song, beatNum, beatTime)
    IN  /\ beatCount < TOTAL_BEATS(song)
        /\ beatCount' = beatCount + 1
        /\ targets' = r.targets
        /\ idCounter' = r.idCounter
        /\ op' = [NoOp EXCEPT !.name = "beat", !.beatNum = beatNum, !.beatTime = beatTime,
                              !.seenBefore = DOMAIN fate]
        /\ prevTargets' = targets
        /\ fate' = FateAfter(fate, targets, r.targets, NoResult, <<>>)
        /\ UNCHANGED <<song, generated, refVars, handlers, soundVars, grade, now, running, onMissCbs, scoreVars, sessionVars>>

\* RhythmEngine.update(dt, audioNow), the audio clock reading audioNow
LaneUpdate(audioNow) ==
    LET u == update(targets, audioNow, onMissCbs)
    IN  /\ now' = audioNow
        /\ targets' = u.targets
        /\ op' = [NoOp EXCEPT !.name = "update", !.audioNow = audioNow, !.misses = u.misses]
        /\ prevTargets' = targets
        /\ fate' = FateAfter(fate, targets, u.judged, NoResult, u.misses)
        /\ UNCHANGED <<song, generated, refVars, handlers, soundVars, grade, idCounter, running, onMissCbs, beatCount, scoreVars, sessionVars>>

\* RhythmEngine.tryHit(tapX, tapY, audioNow), the audio clock reading audioNow
LaneTap(tapX, tapY, audioNow) ==
    LET r == tryHit(targets, tapX, tapY, audioNow)
    IN  /\ now' = audioNow
        /\ targets' = r.targets
        /\ op' = [NoOp EXCEPT !.name = "tryHit", !.tapX = tapX, !.tapY = tapY,
                              !.audioNow = audioNow, !.result = r.result]
        /\ prevTargets' = targets
        /\ fate' = FateAfter(fate, targets, r.targets, r.result, <<>>)
        /\ UNCHANGED <<song, generated, refVars, handlers, soundVars, grade, idCounter, running, onMissCbs, beatCount, scoreVars, sessionVars>>

\* RhythmEngine.onMiss(cb)
LaneOnMiss(cb) ==
    /\ cb = Len(onMissCbs) + 1
    /\ onMissCbs' = Append(onMissCbs, cb)
    /\ op' = [NoOp EXCEPT !.name = "onMiss"]
    /\ prevTargets' = targets
    /\ UNCHANGED <<song, generated, refVars, handlers, soundVars, grade, now, targets, idCounter, running, beatCount, scoreVars, sessionVars, fate>>

NextLane ==
    \/ LaneStart
    \/ LaneStop
    \/ LaneDestroy
    \/ \E t \in 0..MaxBeatTime : LaneBeat(t)
    \/ \E a \in AudioNows : LaneUpdate(a)
    \/ \E x \in TapXs, y \in TapYs, a \in AudioNows : LaneTap(x, y, a)
    \/ \E cb \in 1..MaxCbs : LaneOnMiss(cb)

SpecLane == InitLane /\ [][NextLane]_vars

\* The first reading of the audio clock in the lane runs
FirstNow == TRAVEL_BEATS * secPerBeat(song.bpm) - GOOD_WINDOW - 1

\* The readings of a clock that goes on tick by tick
NextNows == { a \in AudioNows : a <= Max(now, FirstNow) + 1 }

\* The readings after a frame loop that stalled for more than a whole hit window
StalledNows == { a \in AudioNows : a = Max(now, FirstNow) + 2 * GOOD_WINDOW + GRACE_SEC }

\* The lane while it is never stopped, on a clock that goes on tick by tick or stalls
NextLaneLive ==
    \/ LaneStart
    \/ \E t \in 0..MaxBeatTime : LaneBeat(t)
    \/ \E a \in NextNows \cup StalledNows : LaneUpdate(a)
    \/ \E x \in TapXs, y \in {CanvasH}, a \in NextNows : LaneTap(x, y, a)
    \/ \E cb \in 1..MaxCbs : LaneOnMiss(cb)

\* update called with a later reading of the audio clock
LaterUpdate == \E a \in NextNows \cup StalledNows : a > now /\ LaneUpdate(a)

\* The frame loop keeps calling update: with the audio clock advancing, and once more
\* at the time the clock has reached
SpecLaneLive ==
    InitLane /\ [][NextLaneLive]_vars /\ WF_vars(LaterUpdate) /\ WF_vars(LaneUpdate(now))

-----------------------------------------------------------------------------
(* The score machine alone: any sequence of registerRhythmHit and tickScore calls *)

\* engine.ts: dt = min(elapsed, 100 ms) / 1000, at most two ticks
FrameDts == 1..2

InitScore ==
    /\ song = CHOOSE sg \in LaneSongs : sg.barCount = 1
    /\ now = 0
    /\ targets = <<>>
    /\ idCounter = 0
    /\ running = FALSE
    /\ onMissCbs = <<>>
    /\ beatCount = 0
    /\ score = createScoreState
    /\ prevScore = createScoreState
    /\ streak = 0
    /\ tally = NoTally
    /\ op = NoOp
    /\ prevTargets = <<>>
    /\ fate = [id \in {} |-> 0]
    /\ today = <<>>
    /\ SessionFresh

\* The judgments since the last miss, after one more judgment
StreakAfter(n, rating) == IF rating = "miss" THEN 0 ELSE n + 1

\* registerRhythmHit(score, {rating, zone, targetId})
ScoreRegister(rating) ==
    LET r == registerRhythmHit(score, rating)
    IN  /\ score.totalHitAttempts < MaxAttempts
        /\ rating = "good" => score.goodHits < MaxGoods
        /\ rating = "miss" =>
              score.totalHitAttempts - score.perfectHits - score.goodHits < MaxMisses
        /\ score' = r.score
        /\ prevScore' = score
        /\ streak' = StreakAfter(streak, rating)
        /\ tally' = TallyAfter(tally, rating)
        /\ op' = [NoOp EXCEPT !.name = "register", !.rating = rating, !.points = r.points]
        /\ UNCHANGED <<song, generated, refVars, handlers, soundVars, grade, now, laneVars, laneObs, sessionVars>>

\* The dt of a direct call: a long pause (5 s, as in scoring.test.ts) or a frame
ScoreDts == {5 * TicksPerSecond} \cup FrameDts

\* The moves handed to tickScore
Moves == {"idle", "wiggle"}

\* tickScore(score, dt, move); now counts the frame time of the run, and a long pause
\* is the only tick of its run
ScoreTick(dt, move) ==
    /\ IF dt \in FrameDts THEN now + dt <= MaxTickTime ELSE now = 0
    /\ now' = now + dt
    /\ score' = tickScore(score, dt, move)
    /\ prevScore' = score
    /\ op' = [NoOp EXCEPT !.name = "tick", !.dt = dt]
    /\ UNCHANGED <<song, generated, refVars, handlers, soundVars, grade, streak, tally, laneVars, laneObs, sessionVars>>

\* calculateSessionBonus(score): the function assigns nothing
ScoreBonus ==
    /\ op' = [NoOp EXCEPT !.name = "bonus", !.points = calculateSessionBonus(score)]
    /\ prevScore' = score
    /\ UNCHANGED <<song, generated, refVars, handlers, soundVars, grade, now, score, streak, tally, laneVars, laneObs, sessionVars>>

NextScore ==
    \/ \E rating \in {"perfect", "good", "miss"} : ScoreRegister(rating)
    \/ ScoreBonus
    \/ \E dt \in ScoreDts, move \in Moves : ScoreTick(dt, move)

SpecScore == InitScore /\ [][NextScore]_vars

-----------------------------------------------------------------------------
(* The dance session (dance.ts): pointer, frame, scheduler, timer and exit handlers *)

\* Songs at 300 bpm.  One bar of eight slots, five of them with a zone: the round end is
\* triggered while targets are on their way, and the beats fired after the last slot fall
\* on empty slots or come too late to be hit.  One bar of two slots: the round end is
\* triggered before the first target arrives, and the beats fired until the results
\* overlay wrap around the pattern.
SessionSongs ==
    { [bpm |-> 300, barCount |-> 1,
       beatPattern |-> << <<>>, <<>>, <<UL>>, <<UR>>, <<UC>>, <<UL>>, <<UR>>, <<>> >>],
      [bpm |-> 300, barCount |-> 1, beatPattern |-> << <<UL>>, <<UR>> >>] }

\* "2026-11-06" as character codes
Dates ==
    { <<50, 48, 50, 54, 45, 49, 49, 45, 48, 54>> }

\* BeatEngine.SCHEDULE_AHEAD and the start lead of startBeat, 0.1 s
SCHEDULE_AHEAD == TicksPerSecond \div 10

\* Mutant of RoundEndDelay: the timer waits for the travel time only
RoundEndDelay_travelOnly(sg) == 4 * secPerBeat(sg.bpm)

\* dance.ts: delayMs = (travelSec + 0.5) * 1000, in ticks
RoundEndDelay(sg) == 4 * secPerBeat(sg.bpm) + TicksPerSecond \div 2

\* dance.ts challenge
Challenge == generateDailyChallenge(today)

\* soundSystem.getAudioCurrentTime() ?? 0
AudioTime(isInit) == IF isInit THEN now ELSE 0

\* The part of the session the judgment handlers work on
Judging == [score |-> score, progress |-> challengeProgress, rewarded |-> challengeRewarded]

\* Mutant of updateChallengeUI: the reward is added without refreshing totalScore
updateChallengeUI_staleTotal(st, challenge) ==
    IF st.progress.isNull THEN st
    ELSE IF st.progress.completed /\ ~st.rewarded
    THEN [st EXCEPT !.rewarded = TRUE,
                    !.score.crowdHype = st.score.crowdHype + challenge.rewardPoints * ONE]
    ELSE st

\* Mutant of updateChallengeUI: the reward is added at every update of a completed challenge
updateChallengeUI_everyUpdate(st, challenge) ==
    IF st.progress.isNull THEN st
    ELSE IF st.progress.completed
    THEN LET hype == st.score.crowdHype + challenge.rewardPoints * ONE
         IN  [st EXCEPT !.rewarded = TRUE,
                        !.score.crowdHype = hype,
                        !.score.totalScore = MathFloor(hype)]
    ELSE st

\* updateChallengeUI(): the texts aside, the reward of a completed challenge, once
updateChallengeUI(st, challenge) ==
    IF st.progress.isNull THEN st
    ELSE IF st.progress.completed /\ ~st.rewarded
    THEN LET hype == st.score.crowdHype + challenge.rewardPoints * ONE
         IN  [st EXCEPT !.rewarded = TRUE,
                        !.score.crowdHype = hype,
                        !.score.totalScore = MathFloor(hype)]
    ELSE st

\* if (challengeProgress) { updateChallengeProgress(...); updateChallengeUI(); }
TrackChallenge(st, challenge, rating) ==
    IF st.progress.isNull THEN st
    ELSE updateChallengeUI(
             [st EXCEPT !.progress =
                 updateChallengeProgress(st.progress, challenge, st.score, rating)],
             challenge)

\* Mutant of Judged: a tap without a result is registered as well
Judged_always(st, challenge, result) ==
    TrackChallenge([st EXCEPT !.score = registerRhythmHit(st.score, result.rating).score],
                   challenge, result.rating)

\* Mutant of Judged: the challenge progress is updated before the hit is registered
Judged_progressFirst(st, challenge, result) ==
    IF result.rating # "none"
    THEN LET tracked == TrackChallenge(st, challenge, result.rating)
         IN  [tracked EXCEPT
                 !.score = registerRhythmHit(tracked.score, result.rating).score]
    ELSE st

\* handlePointerDown: if (hitResult) { registerRhythmHit; ...; updateChallengeProgress;
\* updateChallengeUI } else { the character reacts }
Judged(st, challenge, result) ==
    IF result.rating # "none"
    THEN TrackChallenge([st EXCEPT !.score = registerRhythmHit(st.score, result.rating).score],
                        challenge, result.rating)
    ELSE st

\* The onMiss listener of the session
onMissHandler(st, challenge) ==
    TrackChallenge([st EXCEPT !.score = registerRhythmHit(st.score, "miss").score],
                   challenge, "miss")

RECURSIVE MissAll(_, _, _)
\* The onMiss listener called n times in a row by one RhythmEngine.update
MissAll(st, challenge, n) ==
    IF n = 0 THEN st ELSE MissAll(onMissHandler(st, challenge), challenge, n - 1)

\* The bonus part of showResultsOverlay and finishSession
ApplyBonus(s) ==
    LET bonus == calculateSessionBonus(s)
    IN  IF bonus > 0
        THEN [s EXCEPT !.crowdHype = s.crowdHype + bonus * ONE,
                       !.totalScore = MathFloor(s.crowdHype + bonus * ONE)]
        ELSE s

\* bonuses after the bonus part ran on s
BonusesAfter(s) ==
    IF calculateSessionBonus(s) > 0 THEN Append(bonuses, calculateSessionBonus(s))
    ELSE bonuses

\* submitScore() up to its first await: the entry handed to dataService.submitScore
SubmittedAfter(s) ==
    IF s.totalScore <= 0 THEN submitted ELSE Append(submitted, s.totalScore)

\* showResultsOverlay: (perfectHits + goodHits) / max(1, totalHitAttempts), kept as a
\* fraction. The quotient of two counters below 2^53 rounds to the double of a
\* threshold exactly when the fraction equals the threshold, so comparing the
\* fraction compares the doubles.
Accuracy(s) ==
    [num |-> s.perfectHits + s.goodHits, den |-> Max(1, s.totalHitAttempts)]

\* accuracy >= percent / 100
AtLeast(accuracy, percent) == 100 * accuracy.num >= percent * accuracy.den

\* Mutant of computeGrade: the thresholds are exclusive
computeGrade_strict(accuracy) ==
    IF 100 * accuracy.num > 95 * accuracy.den THEN "S"
    ELSE IF 100 * accuracy.num > 85 * accuracy.den THEN "A"
    ELSE IF 100 * accuracy.num > 70 * accuracy.den THEN "B"
    ELSE IF 100 * accuracy.num > 50 * accuracy.den THEN "C"
    ELSE "D"

\* computeGrade(accuracy)
computeGrade(accuracy) ==
    IF AtLeast(accuracy, 95) THEN "S"
    ELSE IF AtLeast(accuracy, 85) THEN "A"
    ELSE IF AtLeast(accuracy, 70) THEN "B"
    ELSE IF AtLeast(accuracy, 50) THEN "C"
    ELSE "D"

\* showResultsOverlay after the await: the grade of the round
ResultsGrade(s) == computeGrade(Accuracy(s))

\* createDanceScreen: the state when the screen has been built
Init ==
    /\ song \in SessionSongs
    /\ today \in Dates
    /\ now = 0
    /\ beatCount = 0
    /\ targets = <<>>
    /\ idCounter = 0
    /\ running = FALSE
    /\ onMissCbs = <<1>>
    /\ score = createScoreState
    /\ prevScore = createScoreState
    /\ streak = 0
    /\ tally = NoTally
    /\ op = NoOp
    /\ prevTargets = <<>>
    /\ fate = [id \in {} |-> 0]
    /\ SessionFresh

\* The part of the session a scheduler poll works on
Polling ==
    [nextBeatTime |-> nextBeatTime, beatCount |-> beatCount, targets |-> targets,
     idCounter |-> idCounter, beatsScheduled |-> beatsScheduled,
     roundEndTriggered |-> roundEndTriggered, roundEndTimerId |-> roundEndTimerId,
     timerArmed |-> timerArmed]

\* The onBeat listener of the session (dance.ts 301-310)
onBeatListener(st, sg, beatNum, beatTime) ==
    LET f == onBeatFired(st.targets, st.idCounter, running, sg, beatNum, beatTime)
        s1 == [st EXCEPT !.targets = f.targets, !.idCounter = f.idCounter,
                         !.beatsScheduled = st.beatsScheduled + 1]
    IN  IF s1.beatsScheduled >= TOTAL_BEATS(sg) /\ ~s1.roundEndTriggered
        THEN [s1 EXCEPT !.roundEndTriggered = TRUE,
                        !.roundEndTimerId = now + RoundEndDelay(sg),
                        !.timerArmed = TRUE]
        ELSE s1

RECURSIVE schedule(_, _, _)
\* BeatEngine.schedule: every beat due within the lookahead, in order
schedule(st, sg, listeners) ==
    IF st.nextBeatTime < now + SCHEDULE_AHEAD
    THEN LET s1 == IF listeners > 0
                   THEN onBeatListener(st, sg, st.beatCount, st.nextBeatTime)
                   ELSE st
         IN  schedule([s1 EXCEPT !.nextBeatTime = st.nextBeatTime + secPerBeat(sg.bpm),
                                 !.beatCount = st.beatCount + 1],
                      sg, listeners)
    ELSE st

\* The getChallengeCompletion promise settles with `done`
CompletionSettled(done) ==
    LET st == updateChallengeUI(
                  [Judging EXCEPT !.progress = IF done THEN challengeProgress
                                               ELSE createChallengeProgress],
                  Challenge)
    IN  /\ score.totalHitAttempts <= MaxLateAttempts
        /\ completion = "pending"
        /\ completion' = "settled"
        /\ challengeProgress' = st.progress
        /\ challengeRewarded' = st.rewarded
        /\ score' = st.score
        /\ prevScore' = score
        /\ op' = [NoOp EXCEPT !.name = "completion"]
        /\ UNCHANGED <<song, generated, refVars, handlers, soundVars, grade, now, laneVars, laneObs, streak, tally, audioVars, roundVars, today>>

\* Mutant of EngineStarted: startBeat starts an engine without an audio context
EngineStarted_always(isInit) == TRUE

\* SoundSystem.startBeat returns early unless init() succeeded; onBeat then finds no engine
EngineStarted(isInit) == isInit

\* handlePointerDown; audioOk: whether new AudioContext() succeeds on the first touch
PointerDown(tapX, tapY, audioOk) ==
    LET first == ~audioStarted
        init1 == IF first THEN audioOk ELSE initialized
        started == first /\ EngineStarted(init1)
        h == tryHit(targets, tapX, tapY, AudioTime(init1))
        hit == h.result.rating # "none"
        r == registerRhythmHit(score, h.result.rating)
        st == Judged(Judging, Challenge, h.result)
    IN  /\ pointerHandlers > 0
        /\ overlay # "shown"
        /\ audioStarted' = TRUE
        /\ initialized' = init1
        /\ engineOn' = IF first THEN started ELSE engineOn
        /\ nextBeatTime' = IF started THEN now + SCHEDULE_AHEAD ELSE nextBeatTime
        /\ beatCount' = IF started THEN 0 ELSE beatCount
        /\ beatCallbacks' = IF started THEN 1 ELSE beatCallbacks
        /\ polled' = IF first THEN TRUE ELSE polled
        /\ running' = IF first THEN TRUE ELSE running
        /\ targets' = h.targets
        /\ score' = st.score
        /\ challengeProgress' = st.progress
        /\ challengeRewarded' = st.rewarded
        /\ peakCombo' = IF hit THEN Max(peakCombo, r.score.comboMultiplier) ELSE peakCombo
        /\ prevScore' = score
        /\ streak' = IF hit THEN streak + 1 ELSE streak
        /\ tally' = IF hit THEN TallyAfter(tally, h.result.rating) ELSE tally
        /\ op' = [NoOp EXCEPT !.name = "pointerdown", !.rating = h.result.rating,
                              !.points = IF hit THEN r.points ELSE 0]
        /\ UNCHANGED <<song, generated, refVars, handlers, soundVars, grade, now, idCounter, onMissCbs, laneObs, today, completion,
                       beatsScheduled, roundEndTriggered, roundEndTimerId, timerArmed,
                       screen, overlay, submitted, bonuses, frameGap>>

\* The setInterval callback of BeatEngine: schedule()
Poll ==
    LET st == schedule(Polling, song, beatCallbacks)
    IN  /\ engineOn
        /\ ~polled
        /\ polled' = TRUE
        /\ nextBeatTime' = st.nextBeatTime
        /\ beatCount' = st.beatCount
        /\ targets' = st.targets
        /\ idCounter' = st.idCounter
        /\ beatsScheduled' = st.beatsScheduled
        /\ roundEndTriggered' = st.roundEndTriggered
        /\ roundEndTimerId' = st.roundEndTimerId
        /\ timerArmed' = st.timerArmed
        /\ UNCHANGED <<op, prevScore, song, generated, refVars, handlers, soundVars, grade, now, running, onMissCbs, score, streak, tally, laneObs, challengeVars,
                       initialized, engineOn, beatCallbacks, audioStarted, peakCombo,
                       screen, overlay, submitted, bonuses, frameGap>>

\* Something of the session can still run: the screen is up, or a timer, an interval
\* or a listener of it is still set
Live ==
    \/ screen = "dance"
    \/ timerArmed
    \/ engineOn
    \/ updateCallbacks > 0
    \/ pointerHandlers > 0
    \/ onMissCbs # <<>>
    \/ beatCallbacks > 0

\* The audio clock and the wall clock advance by one tick; the interval, the frame loop
\* and a due timer run first
Elapse ==
    /\ Live
    /\ overlay = "none"
    /\ initialized \/ (audioStarted /\ now < MaxSilentNow)
    /\ engineOn => polled
    /\ updateCallbacks > 0 => frameGap = 0
    /\ ~(timerArmed /\ now >= roundEndTimerId)
    /\ now' = now + 1
    /\ polled' = FALSE
    /\ frameGap' = IF updateCallbacks > 0 THEN frameGap + 1 ELSE frameGap
    /\ UNCHANGED <<op, prevScore, song, generated, refVars, handlers, soundVars, grade, laneVars, score, streak, tally, laneObs, challengeVars, initialized,
                   engineOn, nextBeatTime, beatCallbacks, audioStarted, beatsScheduled,
                   roundEndTriggered, roundEndTimerId, timerArmed, peakCombo, screen,
                   overlay, submitted, bonuses>>

\* The gameEngine.onUpdate callback: rhythmEngine.update, then tickScore
Frame ==
    LET u == update(targets, AudioTime(initialized), onMissCbs)
        st == MissAll(Judging, Challenge, Len(u.misses))
        dt == Min(frameGap, 2)
    IN  /\ updateCallbacks > 0
        /\ frameGap > 0
        /\ frameGap' = 0
        /\ targets' = u.targets
        /\ score' = tickScore(st.score, dt, "idle")
        /\ challengeProgress' = st.progress
        /\ challengeRewarded' = st.rewarded
        /\ prevScore' = score
        /\ streak' = IF Len(u.misses) > 0 THEN 0 ELSE streak
        /\ tally' = TallyMisses(tally, Len(u.misses))
        /\ op' = [NoOp EXCEPT !.name = "frame", !.dt = dt,
                              !.rating = IF Len(u.misses) > 0 THEN "miss" ELSE "none"]
        /\ UNCHANGED <<song, generated, refVars, handlers, soundVars, grade, now, idCounter, running, onMissCbs, beatCount, laneObs,
                       audioVars, today, completion, audioStarted, beatsScheduled,
                       roundEndTriggered, roundEndTimerId, timerArmed, peakCombo, screen,
                       overlay, submitted, bonuses>>

\* The round-end timer fires: showResultsOverlay() up to the await inside submitScore
RoundEnd ==
    LET s1 == ApplyBonus(score)
    IN  /\ timerArmed
        /\ now >= roundEndTimerId
        /\ timerArmed' = FALSE
        /\ engineOn' = FALSE
        /\ running' = FALSE
        /\ targets' = <<>>
        /\ score' = s1
        /\ bonuses' = BonusesAfter(score)
        /\ submitted' = SubmittedAfter(s1)
        /\ overlay' = IF s1.totalScore > 0 THEN "awaiting" ELSE "shown"
        /\ grade' = IF s1.totalScore > 0 THEN grade ELSE ResultsGrade(s1)
        /\ prevScore' = score
        /\ op' = [NoOp EXCEPT !.name = "roundEnd"]
        /\ UNCHANGED <<song, generated, refVars, handlers, soundVars, now, idCounter, onMissCbs, beatCount, streak, tally, laneObs,
                       challengeVars, initialized, nextBeatTime, beatCallbacks, polled,
                       audioStarted, beatsScheduled, roundEndTriggered, roundEndTimerId,
                       peakCombo, screen, frameGap>>

\* dataService.submitScore settles: showResultsOverlay() builds the overlay
OverlayShown ==
    /\ overlay = "awaiting"
    /\ overlay' = "shown"
    /\ grade' = ResultsGrade(score)
    /\ UNCHANGED <<op, prevScore, song, generated, refVars, handlers, soundVars, now, laneVars, score, streak, tally, laneObs, challengeVars, audioVars,
                   audioStarted, beatsScheduled, roundEndTriggered, roundEndTimerId,
                   timerArmed, peakCombo, screen, submitted, bonuses, frameGap>>

\* Mutant of Cleanup: the round-end timer is not cleared
Cleanup_keepTimer(dest) ==
    /\ screen' = dest
    /\ onMissCbs' = <<>>
    /\ pointerHandlers' = 0
    /\ updateCallbacks' = 0
    /\ timerArmed' = timerArmed
    /\ beatCallbacks' = 0
    /\ engineOn' = FALSE
    /\ running' = FALSE
    /\ targets' = <<>>

\* navigate(dest) away from the dance screen: the cleanup functions of the screen, in
\* the order they were pushed (unsubMiss, removeEventListener, unsubUpdate, then
\* clearTimeout, beatUnsub, stopBeat and rhythmEngine.destroy)
Cleanup(dest) ==
    /\ screen' = dest
    /\ onMissCbs' = <<>>
    /\ pointerHandlers' = 0
    /\ updateCallbacks' = 0
    /\ timerArmed' = IF roundEndTimerId # Null THEN FALSE ELSE timerArmed
    /\ beatCallbacks' = 0
    /\ engineOn' = FALSE
    /\ running' = FALSE
    /\ targets' = <<>>

\* Mutant of finishSession: the roundEndTriggered guard is missing
finishSession_noGuard ==
    [score |-> ApplyBonus(score), bonuses |-> BonusesAfter(score),
     submitted |-> SubmittedAfter(ApplyBonus(score))]

\* finishSession() up to the await inside submitScore
finishSession ==
    IF roundEndTriggered
    THEN [score |-> score, bonuses |-> bonuses, submitted |-> submitted]
    ELSE [score |-> ApplyBonus(score), bonuses |-> BonusesAfter(score),
          submitted |-> SubmittedAfter(ApplyBonus(score))]

\* The exit button: finishSession(), then navigate('home')
Exit ==
    LET f == finishSession
    IN  /\ screen = "dance"
        /\ overlay # "shown"
        /\ score' = f.score
        /\ bonuses' = f.bonuses
        /\ submitted' = f.submitted
        /\ Cleanup("home")
        /\ prevScore' = score
        /\ op' = [NoOp EXCEPT !.name = "exit"]
        /\ UNCHANGED <<song, generated, refVars, soundVars, grade, now, idCounter, beatCount, streak, tally, laneObs, challengeVars,
                       initialized, nextBeatTime, polled, audioStarted, beatsScheduled,
                       roundEndTriggered, roundEndTimerId, peakCombo, overlay, frameGap>>

\* The buttons of the results overlay: navigate('song-select') or navigate('home')
OverlayLeave(dest) ==
    /\ screen = "dance"
    /\ overlay = "shown"
    /\ Cleanup(dest)
    /\ prevScore' = score
    /\ op' = [NoOp EXCEPT !.name = "leave"]
    /\ UNCHANGED <<song, generated, refVars, soundVars, grade, now, idCounter, beatCount, score, streak, tally, laneObs, challengeVars,
                   initialized, nextBeatTime, polled, audioStarted, beatsScheduled,
                   roundEndTriggered, roundEndTimerId, peakCombo, overlay, submitted,
                   bonuses, frameGap>>

Next ==
    \/ \E done \in BOOLEAN : CompletionSettled(done)
    \/ \E x \in TapXs, y \in {CanvasH} :
          \E ok \in (IF audioStarted THEN {initialized} ELSE BOOLEAN) : PointerDown(x, y, ok)
    \/ Poll
    \/ Elapse
    \/ Frame
    \/ RoundEnd
    \/ OverlayShown
    \/ Exit
    \/ \E dest \in {"song-select", "home"} : OverlayLeave(dest)

Spec == Init /\ [][Next]_vars

-----------------------------------------------------------------------------
(* Claims about the lane, read off the last operation *)

\* The column a zone names: the second word of `${row}-${col}`
ColumnWord(zone) == zone[2]

\* The indices of prevTargets that a tap in the column of tapX could resolve at audioNow:
\* active, in that column, at most 0.15 s (3 ticks) from their hitTime
Candidates ==
    { i \in 1..Len(prevTargets) :
        /\ prevTargets[i].state = "active"
        /\ ColumnWord(prevTargets[i].zone) = columnFromX(op.tapX)
        /\ Abs(op.audioNow - prevTargets[i].hitTime) <= 3 }

\* The indices of prevTargets holding the target a tryHit result names
Resolved == { i \in 1..Len(prevTargets) : prevTargets[i].id = op.result.targetId }

\* C1: tryHit rates the target it resolves by d = |audioNow - hitTime|: perfect when
\* d <= 0.05 s (1 tick), good when 0.05 s < d <= 0.15 s (3 ticks), early or late alike,
\* and it returns null exactly when no active target of the tapped column has d <= 0.15 s.
C1_RatingByDelta ==
    op.name = "tryHit" =>
        /\ (op.result = NoResult) <=> (Candidates = {})
        /\ op.result # NoResult =>
              /\ Resolved # {}
              /\ \A i \in Resolved :
                    LET d == Abs(op.audioNow - prevTargets[i].hitTime)
                    IN  /\ op.result.rating = "perfect" <=> d <= 1
                        /\ op.result.rating = "good" <=> (1 < d /\ d <= 3)
                        /\ op.result.zone = prevTargets[i].zone

\* C1 witness: a tap 3 ticks early was rated good
C1_Witness ==
    /\ op.name = "tryHit"
    /\ op.result.rating = "good"
    /\ \E i \in Resolved : prevTargets[i].hitTime - op.audioNow = 3

\* Index i of prevTargets wins against index j: smaller delta, or the same delta and
\* spawned first
Wins(i, j) ==
    LET di == Abs(op.audioNow - prevTargets[i].hitTime)
        dj == Abs(op.audioNow - prevTargets[j].hitTime)
    IN  di < dj \/ (di = dj /\ prevTargets[i].id <= prevTargets[j].id)

\* C2: when several active targets of the tapped column are inside the good window, one
\* tryHit marks exactly one of them hit, the one with the smallest delta and on a tie the
\* one spawned first, and leaves every other target as it was.
C2_OneTargetPerTap ==
    (op.name = "tryHit" /\ Candidates # {}) =>
        \E w \in Candidates :
            /\ \A j \in Candidates : Wins(w, j)
            /\ op.result.targetId = prevTargets[w].id
            /\ targets = [prevTargets EXCEPT ![w].state = "hit"]
            /\ Cardinality({ i \in 1..Len(targets) : targets[i] # prevTargets[i] }) = 1

\* C2 witness: two candidates at the same delta, the one spawned first was hit and the
\* other is still active
C2_Witness ==
    /\ op.name = "tryHit"
    /\ \E i, j \in Candidates :
          /\ prevTargets[i].id < prevTargets[j].id
          /\ Abs(op.audioNow - prevTargets[i].hitTime) = Abs(op.audioNow - prevTargets[j].hitTime)
          /\ targets[i].state = "hit"
          /\ targets[j].state = "active"

\* C3: a tap in one column never changes a target whose zone maps to another column,
\* and the rows play no role: the tap resolves a candidate of its column whatever the
\* row of the target's zone and whatever the tap's Y.
C3_ColumnIsolation ==
    op.name = "tryHit" =>
        /\ \A i \in 1..Len(prevTargets) :
              ColumnWord(prevTargets[i].zone) # columnFromX(op.tapX)
                  => targets[i] = prevTargets[i]
        /\ Len(targets) = Len(prevTargets)
        /\ op.result # NoResult => ColumnWord(op.result.zone) = columnFromX(op.tapX)
        /\ Candidates # {} => op.result # NoResult

\* C3 witness: a tap above the rail in the right column hit the upper-right target while
\* a lower-left target inside its own good window stayed active
C3_Witness ==
    /\ op.name = "tryHit"
    /\ columnFromX(op.tapX) = "right"
    /\ op.result.zone = UR
    /\ \E i \in 1..Len(targets) :
          /\ targets[i].zone = LL
          /\ targets[i].state = "active"
          /\ Abs(op.audioNow - targets[i].hitTime) <= 3

\* C4: active -> hit and active -> missed are the only transitions and both are final:
\* a hit target is never reported missed, a missed target is never hit, no judged target
\* is active again, and a target gets at most one judgment.
C4_TerminalStates ==
    \A id \in DOMAIN fate :
        /\ fate[id].hits + fate[id].missed <= 1
        /\ fate[id].state = "hit" <=> fate[id].hits = 1
        /\ fate[id].state = "missed" <=> fate[id].missed = 1
        /\ fate[id].reported => fate[id].missed = 1

\* C4 witness: update has run with one target hit earlier and another one missed
C4_Witness ==
    /\ op.name = "update"
    /\ \E i \in 1..Len(prevTargets) : prevTargets[i].state = "hit"
    /\ \E id \in DOMAIN fate : fate[id].state = "missed" /\ fate[id].reported

\* The onMiss calls of the last update that carry target t
CallsFor(t) == { j \in 1..Len(op.misses) : op.misses[j].id = t.id }

\* C5: update turns an active target into missed and calls every onMiss listener exactly
\* once with its zone if and only if audioNow > hitTime + 0.25 s (5 ticks); an active
\* target not past its grace period gets no call and stays as it was.
C5_AutoMiss ==
    op.name = "update" =>
        \A i \in 1..Len(prevTargets) :
            LET t == prevTargets[i]
                late == op.audioNow > t.hitTime + 5
            IN  IF t.state = "active" /\ late
                THEN /\ fate[t.id].state = "missed"
                     /\ \A k \in 1..Len(onMissCbs) :
                           Cardinality({ j \in CallsFor(t) : op.misses[j].cb = onMissCbs[k] }) = 1
                     /\ Cardinality(CallsFor(t)) = Len(onMissCbs)
                     /\ \A j \in CallsFor(t) : op.misses[j].zone = t.zone
                ELSE /\ CallsFor(t) = {}
                     /\ fate[t.id].state = t.state
                     /\ t.state = "active" => \E j \in 1..Len(targets) : targets[j] = t

\* C5 witness: one update missed a target and left alone a target exactly at the end of
\* its grace period
C5_Witness ==
    /\ op.name = "update"
    /\ Len(op.misses) > 0
    /\ \E j \in 1..Len(targets) :
          targets[j].state = "active" /\ op.audioNow = targets[j].hitTime + 5

\* The targets the last onBeatFired appended
Spawned == SubSeq(targets, Len(prevTargets) + 1, Len(targets))

\* C6: onBeatFired on a started lane creates one active target per zone of
\* beatPattern[beatNum mod patternLength], with hitTime = beatTime + 4 x secPerBeat and
\* a fresh id larger than every earlier id; a lane that is not running creates none.
C6_SpawnPerZone ==
    op.name = "beat" =>
        LET zones == song.beatPattern[(op.beatNum % Len(song.beatPattern)) + 1]
        IN  /\ SubSeq(targets, 1, Len(prevTargets)) = prevTargets
            /\ Len(Spawned) = (IF running THEN Len(zones) ELSE 0)
            /\ \A k \in 1..Len(Spawned) :
                  /\ Spawned[k].zone = zones[k]
                  /\ Spawned[k].state = "active"
                  /\ Spawned[k].hitTime = op.beatTime + 4 * ((60 * 20) \div song.bpm)
                  /\ \A e \in op.seenBefore : Spawned[k].id > e
                  /\ \A j \in 1..(k - 1) : Spawned[k].id > Spawned[j].id

\* C6 witness: a beat of a two-zone slot created two targets with the same hitTime
C6_Witness ==
    /\ op.name = "beat"
    /\ Len(Spawned) = 2
    /\ Spawned[1].hitTime = Spawned[2].hitTime

-----------------------------------------------------------------------------
(* Claims about the score machine, read off the last operation *)

\* n = Math.round(x) for a fixed-point x >= 0: n - 1/2 <= x < n + 1/2
IsRound(n, x) == 2 * n * 200 - 200 <= 2 * x /\ 2 * x < 2 * n * 200 + 200

\* min(5.0, 1.0 + combo * 0.25) in units of 1/200
ClaimedMultiplier(combo) == IF 200 + combo * 50 > 1000 THEN 1000 ELSE 200 + combo * 50

\* C7: a perfect or good registerRhythmHit returns round(base x comboMultiplier before
\* the call), base 300 for perfect and 100 for good, adds exactly those points to
\* crowdHype, then increments combo and recomputes comboMultiplier from the new combo.
C7_PointsUsePriorMultiplier ==
    (op.name = "register" /\ op.rating \in {"perfect", "good"}) =>
        LET base == IF op.rating = "perfect" THEN 300 ELSE 100
        IN  /\ IsRound(op.points, base * prevScore.comboMultiplier)
            /\ score.crowdHype = prevScore.crowdHype + op.points * 200
            /\ score.combo = prevScore.combo + 1
            /\ score.comboMultiplier = ClaimedMultiplier(score.combo)

\* C7 witness: a perfect hit at multiplier 2.0 returned 600 points
C7_Witness ==
    /\ op.name = "register"
    /\ op.rating = "perfect"
    /\ prevScore.comboMultiplier = 400
    /\ op.points = 600

\* C8: a miss returns 0, sets combo and consecutivePerfects to 0, lowers comboMultiplier
\* by 0.5 but not below 1.0, increments totalHitAttempts and leaves crowdHype,
\* perfectHits and goodHits unchanged.
C8_MissResets ==
    (op.name = "register" /\ op.rating = "miss") =>
        /\ op.points = 0
        /\ score.combo = 0
        /\ score.consecutivePerfects = 0
        /\ score.comboMultiplier =
              (IF prevScore.comboMultiplier - 100 < 200 THEN 200
               ELSE prevScore.comboMultiplier - 100)
        /\ score.totalHitAttempts = prevScore.totalHitAttempts + 1
        /\ score.crowdHype = prevScore.crowdHype
        /\ score.perfectHits = prevScore.perfectHits
        /\ score.goodHits = prevScore.goodHits

\* C8 witness: a miss at multiplier 1.25 and combo 1 left the multiplier at 1.0
C8_Witness ==
    /\ op.name = "register"
    /\ op.rating = "miss"
    /\ prevScore.comboMultiplier = 250
    /\ prevScore.combo = 1
    /\ score.comboMultiplier = 200

\* C9: after every non-miss registerRhythmHit, in any sequence of hits, misses and
\* ticks, comboMultiplier = min(5.0, 1.0 + combo x 0.25) and combo is the number of
\* non-miss judgments since the last miss (or since the start).
C9_MultiplierFromCombo ==
    (op.name = "register" /\ op.rating # "miss") =>
        /\ score.comboMultiplier = ClaimedMultiplier(score.combo)
        /\ score.combo = streak

\* C9 witness: the first hit after a miss, at a multiplier that was still decaying
C9_Witness ==
    /\ op.name = "register"
    /\ op.rating # "miss"
    /\ prevScore.combo = 0
    /\ prevScore.comboMultiplier > 200
    /\ prevScore.comboMultiplier % 50 # 0
    /\ score.combo = 1

\* C11: in every state reachable from createScoreState by registerRhythmHit (perfect,
\* good, miss) and tickScore (dt >= 0) calls, 1.0 <= comboMultiplier <= 5.0.
C11_MultiplierRange == 200 <= score.comboMultiplier /\ score.comboMultiplier <= 1000

\* C11 witness: the multiplier is 5.0 at a combo whose uncapped value is above 5.0
C11_Witness == score.combo > 16 /\ score.comboMultiplier = 1000

\* C12: tickScore changes nothing but comboMultiplier: at combo 0 it lowers it by
\* 0.1 x dt (dt in seconds; one unit of 1/200 per tick of 1/20 s) but never below 1.0,
\* at combo > 0 it leaves it; crowdHype, totalScore, combo and the hit counters are
\* unchanged, whatever the move.
C12_TickOnlyDecays ==
    op.name = "tick" =>
        score = [prevScore EXCEPT !.comboMultiplier =
                    IF prevScore.combo > 0 THEN prevScore.comboMultiplier
                    ELSE IF prevScore.comboMultiplier - op.dt < 200 THEN 200
                    ELSE prevScore.comboMultiplier - op.dt]

\* C12 witness: a long pause at combo 0 took a multiplier between 1.0 and 1.5 to 1.0
C12_Witness ==
    /\ op.name = "tick"
    /\ prevScore.combo = 0
    /\ prevScore.comboMultiplier > 200
    /\ prevScore.comboMultiplier - op.dt < 200
    /\ score.comboMultiplier = 200

\* C13: calculateSessionBonus returns 0 when totalHitAttempts = 0 and otherwise
\* round(500 x perfectHits / totalHitAttempts): 500 when every attempt was perfect, 250
\* for one perfect out of two attempts, always an integer in [0, 500]; the state is not
\* modified.
C13_SessionBonus ==
    op.name = "bonus" =>
        LET p == prevScore.perfectHits
            a == prevScore.totalHitAttempts
        IN  /\ score = prevScore
            /\ a = 0 => op.points = 0
            /\ a > 0 => /\ 2 * op.points * a - a <= 2 * 500 * p
                        /\ 2 * 500 * p < 2 * op.points * a + a
            /\ (a > 0 /\ p = a) => op.points = 500
            /\ (a = 2 /\ p = 1) => op.points = 250
            /\ 0 <= op.points /\ op.points <= 500

\* C13 witness: the bonus of one perfect in three attempts, 166.66.. rounded to 167
C13_Witness ==
    /\ op.name = "bonus"
    /\ score.perfectHits = 1
    /\ score.totalHitAttempts = 3
    /\ op.points = 167

\* C14: registerRhythmHit keeps the accuracy counters exact for every judgment sequence:
\* totalHitAttempts counts all judgments, misses included, perfectHits and goodHits count
\* their own rating, consecutivePerfects is the length of the current run of perfects;
\* perfect, perfect, miss, good ends with combo 1, multiplier 1.25, perfectHits 2,
\* goodHits 1, totalHitAttempts 4, consecutivePerfects 0, and five perfects end with
\* combo 5, multiplier 2.25, consecutivePerfects 5.
C14_CountersExact ==
    /\ score.totalHitAttempts = tally.perfect + tally.good + tally.miss
    /\ score.perfectHits = tally.perfect
    /\ score.goodHits = tally.good
    /\ score.consecutivePerfects = tally.run
    /\ (/\ op.name = "register" /\ op.rating = "good" /\ streak = 1
        /\ tally = [perfect |-> 2, good |-> 1, miss |-> 1, run |-> 0])
       => (/\ score.combo = 1 /\ score.comboMultiplier = 250
           /\ score.perfectHits = 2 /\ score.goodHits = 1
           /\ score.totalHitAttempts = 4 /\ score.consecutivePerfects = 0)
    /\ tally = [perfect |-> 5, good |-> 0, miss |-> 0, run |-> 5]
       => (/\ score.combo = 5 /\ score.comboMultiplier = 450
           /\ score.perfectHits = 5 /\ score.totalHitAttempts = 5
           /\ score.consecutivePerfects = 5)

\* C14 witness: perfect, perfect, miss, good has just been registered
C14_Witness ==
    /\ op.name = "register"
    /\ op.rating = "good"
    /\ streak = 1
    /\ tally = [perfect |-> 2, good |-> 1, miss |-> 1, run |-> 0]
    /\ score.consecutivePerfects = 0

-----------------------------------------------------------------------------
(* Claims about the dance session *)

\* C10: in a rhythm session totalScore == floor(crowdHype) holds after every operation
\* that changes the score state: registerRhythmHit (hit or miss), the daily-challenge
\* reward in updateChallengeUI and the session bonus in showResultsOverlay and
\* finishSession.
C10_TotalScoreIsFloor ==
    /\ score.totalScore * 200 <= score.crowdHype
    /\ score.crowdHype < (score.totalScore + 1) * 200

\* C10 witness: a session in which hits were registered, the challenge reward was added
\* and the session bonus was added at the round end
C10_Witness ==
    /\ challengeRewarded
    /\ Len(bonuses) > 0
    /\ score.perfectHits > 0
    /\ overlay = "shown"
    /\ score.totalScore > 0

\* C15: in any interleaving of beat callbacks, the round-end timer, the exit button and
\* the screen cleanup of one dance session, the session bonus is added at most once and
\* dataService.submitScore is called at most once; finishSession does nothing once the
\* natural round end has been triggered, and the natural end is triggered at most once.
C15_FinalizeOnce ==
    /\ [](Len(bonuses) <= 1 /\ Len(submitted) <= 1)
    /\ [][roundEndTriggered =>
            /\ roundEndTriggered'
            /\ roundEndTimerId' = roundEndTimerId
            /\ timerArmed' => timerArmed
            /\ screen' # screen =>
                  (score' = score /\ bonuses' = bonuses /\ submitted' = submitted)]_vars

\* C15 witness: the exit button was pressed after the round-end timer had finalized the
\* session and before the results overlay was shown
C15_Witness ==
    /\ op.name = "exit"
    /\ screen = "home"
    /\ roundEndTriggered
    /\ overlay = "awaiting"
    /\ Len(bonuses) = 1
    /\ Len(submitted) = 1

\* C16: every dance session left through the exit button is finalized: by the time the
\* screen has been cleaned up the session bonus has been applied and, when totalScore > 0,
\* the result has been submitted exactly once, at whatever moment exit is pressed,
\* including after the last beat was scheduled and before the round-end timer has fired.
C16_ExitFinalizes ==
    (op.name = "exit" /\ screen = "home") =>
        /\ calculateSessionBonus(prevScore) > 0 => Len(bonuses) = 1
        /\ score.totalScore > 0 => Len(submitted) = 1

\* C16 failing state: exit pressed between the last scheduled beat and the round-end
\* timer; the timer is cancelled by the cleanup and the scored session is never submitted
C16_Unfinalized ==
    /\ op.name = "exit"
    /\ screen = "home"
    /\ roundEndTriggered
    /\ overlay = "none"
    /\ ~timerArmed
    /\ score.totalScore > 0
    /\ bonuses = <<>>
    /\ submitted = <<>>

\* The index of the beat a target was spawned for: the beat engine is started at audio
\* time 0 with its first beat SCHEDULE_AHEAD later, and a target is hit TRAVEL_BEATS
\* beats after its own beat
BeatIndexOf(t) == (t.hitTime - SCHEDULE_AHEAD) \div secPerBeat(song.bpm) - TRAVEL_BEATS

\* The targets of the lane spawned for a beat past the end of the song
LateTargets == { i \in 1..Len(targets) : BeatIndexOf(targets[i]) >= TOTAL_BEATS(song) }

\* C17: a round contains exactly TOTAL_BEATS = barCount x beatPattern.length beats: once
\* that many beats have been delivered the scheduler and the lane are stopped, so the lane
\* never spawns a target for a beat index >= TOTAL_BEATS and no judgment can come from
\* such a target.
C17_RoundHasTotalBeats ==
    /\ beatsScheduled <= TOTAL_BEATS(song)
    /\ beatsScheduled >= TOTAL_BEATS(song) => ~engineOn /\ ~running
    /\ LateTargets = {}

\* C17 failing state: a tap has just been rated on a target spawned for a beat past the
\* end of the song, while the round-end timer is still pending
C17_LateJudgment ==
    /\ op.name = "pointerdown"
    /\ op.rating \in {"perfect", "good"}
    /\ timerArmed
    /\ beatsScheduled > TOTAL_BEATS(song)
    /\ \E i \in LateTargets : targets[i].state = "hit"
    /\ \A i \in 1..Len(targets) : targets[i].state = "hit" => i \in LateTargets

-----------------------------------------------------------------------------
(* The challenge generator alone: any sequence of generateDailyChallenge calls *)

\* The calls explored
MaxCalls == 2

\* The date strings handed to generateDailyChallenge, as character codes: the dates of
\* challenge.test.ts (their hashes are negative before Math.abs), nine consecutive days
\* (positive hashes), a string whose hash is -2^31, and the empty string (hash 0)
DateStrs ==
    {
      <<50, 48, 50, 52, 45, 48, 49, 45, 48, 49>>,          \* "2024-01-01"
      <<50, 48, 50, 52, 45, 48, 49, 45, 48, 50>>,          \* "2024-01-02"
      <<50, 48, 50, 52, 45, 48, 54, 45, 50, 48>>,          \* "2024-06-20"
      <<50, 48, 50, 54, 45, 49, 49, 45, 48, 49>>,          \* "2026-11-01"
      <<50, 48, 50, 54, 45, 49, 49, 45, 48, 50>>,          \* "2026-11-02"
      <<50, 48, 50, 54, 45, 49, 49, 45, 48, 51>>,          \* "2026-11-03"
      <<50, 48, 50, 54, 45, 49, 49, 45, 48, 52>>,          \* "2026-11-04"
      <<50, 48, 50, 54, 45, 49, 49, 45, 48, 53>>,          \* "2026-11-05"
      <<50, 48, 50, 54, 45, 49, 49, 45, 48, 54>>,          \* "2026-11-06"
      <<50, 48, 50, 54, 45, 49, 49, 45, 48, 55>>,          \* "2026-11-07"
      <<50, 48, 50, 54, 45, 49, 49, 45, 48, 56>>,          \* "2026-11-08"
      <<50, 48, 50, 54, 45, 49, 49, 45, 48, 57>>,          \* "2026-11-09"
      <<71, 121, 100, 90, 71, 95>>,                        \* "GydZG_"
      <<>>                                                 \* ""
    }

\* Nothing but the generator is used
InitChallenge ==
    /\ song = CHOOSE sg \in LaneSongs : sg.barCount = 1
    /\ now = 0
    /\ targets = <<>>
    /\ idCounter = 0
    /\ running = FALSE
    /\ onMissCbs = <<>>
    /\ beatCount = 0
    /\ score = createScoreState
    /\ prevScore = createScoreState
    /\ streak = 0
    /\ tally = NoTally
    /\ op = NoOp
    /\ prevTargets = <<>>
    /\ fate = [id \in {} |-> 0]
    /\ today = <<>>
    /\ SessionFresh

\* One call generateDailyChallenge(dateStr)
Generate(dateStr) ==
    /\ Len(generated) < MaxCalls
    /\ generated' = Append(generated, [dateStr |-> dateStr,
                                       challenge |-> generateDailyChallenge(dateStr)])
    /\ UNCHANGED <<song, now, laneVars, scoreVars, op, laneObs, sessionVars, soundVars, grade, handlers, refVars>>

NextChallenge == \E dateStr \in DateStrs : Generate(dateStr)

SpecChallenge == InitChallenge /\ [][NextChallenge]_vars

-----------------------------------------------------------------------------
(* Claims about the challenge generator, checked under SpecChallenge *)

\* The signed 32-bit hash of a date string before Math.abs, in halves
RawHash(dateStr) == HashLoop(dateStr, 1, [hi |-> 0, lo |-> 0])

\* The residue the generator derives both targets from
ResidueOf(dateStr) == HashMod8(MathAbs32(RawHash(dateStr)))

\* The calls made so far
Calls == 1..Len(generated)

SameContent(i, j) ==
    /\ generated[i].challenge.description = generated[j].challenge.description
    /\ generated[i].challenge.conditions = generated[j].challenge.conditions

\* C20 as stated: challenges generated by generateDailyChallenge for two different date
\* strings differ in their description or in their conditions.
C20_DifferentDatesDiffer ==
    \A i, j \in Calls :
        generated[i].dateStr # generated[j].dateStr => ~SameContent(i, j)

\* C20 amended: the challenges of two date strings differ in their date; they differ in
\* description and conditions exactly when abs(hash) % 8 of the two strings differ, so
\* two strings with the same residue get the same description and conditions, and the
\* consecutive days 2024-01-01 and 2024-01-02 of the test get different ones.
C20_DifferByResidue ==
    \A i, j \in Calls :
        /\ SameContent(i, j) <=>
              ResidueOf(generated[i].dateStr) = ResidueOf(generated[j].dateStr)
        /\ generated[i].dateStr # generated[j].dateStr =>
              generated[i].challenge.date # generated[j].challenge.date
        /\ ( /\ generated[i].dateStr = <<50, 48, 50, 52, 45, 48, 49, 45, 48, 49>>
             /\ generated[j].dateStr = <<50, 48, 50, 52, 45, 48, 49, 45, 48, 50>> )
           => ~SameContent(i, j)

\* C20 witness: 2026-11-01 and 2026-11-09 got the same description and conditions
C20_Witness ==
    /\ Len(generated) = 2
    /\ generated[1].dateStr = <<50, 48, 50, 54, 45, 49, 49, 45, 48, 49>>
    /\ generated[2].dateStr = <<50, 48, 50, 54, 45, 49, 49, 45, 48, 57>>
    /\ SameContent(1, 2)
    /\ generated[1].challenge.date # generated[2].challenge.date

-----------------------------------------------------------------------------
(* The challenge tracker alone: any sequence of updateChallengeProgress calls on a *)
(* progress made by createChallengeProgress                                        *)

\* The longest run of perfects explored
MaxStreak == 13

\* "2024-01-01" (5 perfects, 1000 points) and "2024-01-02" (12 perfects, 4500 points)
ProgressDates ==
    { <<50, 48, 50, 52, 45, 48, 49, 45, 48, 49>>,
      <<50, 48, 50, 52, 45, 48, 49, 45, 48, 50>> }

\* The ratings handed to updateChallengeProgress; "none" is the omitted argument
ProgressRatings == {"perfect", "good", "miss", "none"}

\* The score states handed to updateChallengeProgress: totals around both score targets
ProgressScores ==
    { [createScoreState EXCEPT !.crowdHype = t * ONE, !.totalScore = t] :
        t \in {0, 999, 1000, 4499, 4500} }

\* generateDailyChallenge(date), createChallengeProgress(challenge)
InitProgress ==
    /\ song = CHOOSE sg \in LaneSongs : sg.barCount = 1
    /\ now = 0
    /\ targets = <<>>
    /\ idCounter = 0
    /\ running = FALSE
    /\ onMissCbs = <<>>
    /\ beatCount = 0
    /\ score = createScoreState
    /\ prevScore = createScoreState
    /\ streak = 0
    /\ tally = NoTally
    /\ op = NoOp
    /\ prevTargets = <<>>
    /\ fate = [id \in {} |-> 0]
    /\ generated = <<>>
    /\ refTargets = <<>>
    /\ refFate = [id \in {} |-> 0]
    /\ refScore = createScoreState
    /\ updateCallbacks = 1
    /\ pointerHandlers = 1
    /\ grade = ""
    /\ SoundFresh
    /\ today \in ProgressDates
    /\ audioStarted = FALSE
    /\ initialized = FALSE
    /\ engineOn = FALSE
    /\ nextBeatTime = 0
    /\ beatCallbacks = 0
    /\ beatsScheduled = 0
    /\ roundEndTriggered = FALSE
    /\ roundEndTimerId = Null
    /\ timerArmed = FALSE
    /\ peakCombo = ONE
    /\ completion = "pending"
    /\ challengeProgress = createChallengeProgress
    /\ challengeRewarded = FALSE
    /\ screen = "dance"
    /\ overlay = "none"
    /\ submitted = <<>>
    /\ bonuses = <<>>
    /\ polled = FALSE
    /\ frameGap = 0

\* One call updateChallengeProgress(progress, s, rating)
ProgressUpdate(s, rating) ==
    /\ rating = "perfect" => challengeProgress.consecutivePerfects < MaxStreak
    /\ challengeProgress' = updateChallengeProgress(challengeProgress, Challenge, s, rating)
    /\ score' = s
    /\ op' = [NoOp EXCEPT !.name = "progress", !.rating = rating,
                          !.before = challengeProgress]
    /\ UNCHANGED <<song, generated, refVars, handlers, soundVars, grade, now, laneVars, laneObs, prevScore, streak, tally,
                   audioVars, roundVars, today, completion, challengeRewarded>>

NextProgress == \E s \in ProgressScores, rating \in ProgressRatings : ProgressUpdate(s, rating)

SpecProgress == InitProgress /\ [][NextProgress]_vars

-----------------------------------------------------------------------------
(* Claims about the challenge tracker, checked under SpecProgress *)

\* The targets of the challenge of the day
StreakTarget == Challenge.conditions[CHOOSE i \in Find(Challenge.conditions, "hit_streak") : TRUE].count
ScoreTarget == Challenge.conditions[CHOOSE i \in Find(Challenge.conditions, "score") : TRUE].targetScore

\* C21: once progress.completed is true, updateChallengeProgress is a complete no-op: for
\* every score state and every rating it leaves consecutivePerfects, bestStreak,
\* scoreReached and completed unchanged, so completed never goes back to false.
C21_CompletedIsFinal ==
    (op.name = "progress" /\ op.before.completed) =>
        /\ challengeProgress.consecutivePerfects = op.before.consecutivePerfects
        /\ challengeProgress.bestStreak = op.before.bestStreak
        /\ challengeProgress.scoreReached = op.before.scoreReached
        /\ challengeProgress.completed

\* C21 witness: a perfect with a total below the target was handed to a completed progress
C21_Witness ==
    /\ op.name = "progress"
    /\ op.before.completed
    /\ op.rating = "perfect"
    /\ score.totalScore < ScoreTarget
    /\ challengeProgress.completed

\* C22: while a challenge is not completed, a perfect increments the running streak and
\* raises bestStreak to it when larger; a good or a miss resets the running streak to 0
\* without touching bestStreak; hence bestStreak never decreases and bestStreak is at
\* least the running streak in every reachable state.
C22_StreakTracking ==
    /\ challengeProgress.bestStreak >= challengeProgress.consecutivePerfects
    /\ (op.name = "progress" /\ ~op.before.completed) =>
          /\ challengeProgress.bestStreak >= op.before.bestStreak
          /\ op.rating = "perfect" =>
                /\ challengeProgress.consecutivePerfects = op.before.consecutivePerfects + 1
                /\ challengeProgress.bestStreak =
                       IF op.before.consecutivePerfects + 1 > op.before.bestStreak
                       THEN op.before.consecutivePerfects + 1
                       ELSE op.before.bestStreak
          /\ op.rating \in {"good", "miss"} =>
                /\ challengeProgress.consecutivePerfects = 0
                /\ challengeProgress.bestStreak = op.before.bestStreak
          /\ op.rating = "none" =>
                /\ challengeProgress.consecutivePerfects = op.before.consecutivePerfects
                /\ challengeProgress.bestStreak = op.before.bestStreak

\* C22 witness: a miss ended a run of three perfects that was the best so far
C22_Witness ==
    /\ op.name = "progress"
    /\ ~op.before.completed
    /\ op.rating = "miss"
    /\ op.before.consecutivePerfects = 3
    /\ challengeProgress.consecutivePerfects = 0
    /\ challengeProgress.bestStreak = 3

\* C23: after every updateChallengeProgress call on a progress created by
\* createChallengeProgress, completed = (bestStreak >= streak target and scoreReached);
\* scoreReached becomes true on the first update at which totalScore >= score target and
\* is never unset; the challenge is not completed while only one condition is met.
C23_CompletionRule ==
    /\ challengeProgress.completed <=>
          (challengeProgress.bestStreak >= StreakTarget /\ challengeProgress.scoreReached)
    /\ op.name = "progress" =>
          /\ op.before.scoreReached => challengeProgress.scoreReached
          /\ ~op.before.scoreReached =>
                (challengeProgress.scoreReached <=> score.totalScore >= ScoreTarget)

\* C23 witness: the streak target of twelve was met several calls ago, the call that
\* brought the total to the score target completed the challenge
C23_Witness ==
    /\ op.name = "progress"
    /\ StreakTarget = 12
    /\ op.before.bestStreak = 13
    /\ op.before.consecutivePerfects = 0
    /\ ~op.before.scoreReached
    /\ ~op.before.completed
    /\ op.rating = "good"
    /\ score.totalScore = ScoreTarget
    /\ challengeProgress.completed

-----------------------------------------------------------------------------
(* sounds.ts: BeatEngine and the beat part of SoundSystem.  An engine is a record of  *)
(* its fields; startTime, lastPoll and stopped are not fields of the class: they      *)
(* remember the argument of start(), the audio time of the last schedule() or of the  *)
(* start, and that stop() was called.  An engine SoundSystem has let go of and whose  *)
(* interval is cleared can never run again and is dropped.                            *)

\* new BeatEngine(ctx, master, bpm, style)
NewBeatEngine(bpm) ==
    [secPerBeat |-> secPerBeat(bpm), nextBeatTime |-> 0, beatCount |-> 0,
     intervalId |-> Null, beatCallbacks |-> <<>>, startTime |-> Null, lastPoll |-> Null,
     stopped |-> FALSE]

\* BeatEngine.start(startTime); id is the handle setInterval returns
BeatEngine_start(e, startTime, id) ==
    [e EXCEPT !.nextBeatTime = startTime, !.beatCount = 0, !.intervalId = id,
              !.startTime = startTime]

\* Mutant of BeatEngine_stop: the interval is not cleared
BeatEngine_stop_keepInterval(e) == e

\* BeatEngine.stop()
BeatEngine_stop(e) ==
    IF e.intervalId # Null THEN [e EXCEPT !.intervalId = Null] ELSE e

\* The engines that can still run
Running(es) == SelectSeq(es, LAMBDA e : e.intervalId # Null)

\* this.beatEngine?.stop(), after which SoundSystem lets go of the engine
LetGo(es, k) ==
    IF k = Null THEN es
    ELSE Running([es EXCEPT ![k] = [BeatEngine_stop(@) EXCEPT !.stopped = TRUE]])

\* BeatEngine.onBeat(cb): the push
BeatEngine_onBeat(e, cb) == [e EXCEPT !.beatCallbacks = Append(@, cb)]

RECURSIVE Without(_, _)
\* cbs.filter(c => c !== cb)
Without(cbs, cb) ==
    IF cbs = <<>> THEN <<>>
    ELSE (IF Head(cbs) = cb THEN <<>> ELSE <<Head(cbs)>>) \o Without(Tail(cbs), cb)

\* The function BeatEngine.onBeat returns
BeatEngine_unsubscribe(e, cb) == [e EXCEPT !.beatCallbacks = Without(@, cb)]

\* this.beatCallbacks.forEach(cb => cb(n, t))
NotifyAll(e, k) ==
    [i \in 1..Len(e.beatCallbacks) |->
        [engine |-> k, cb |-> e.beatCallbacks[i], n |-> e.beatCount, t |-> e.nextBeatTime]]

\* Mutant of BeatAdvance: a beat is dropped from the time line
BeatAdvance_skip(e) ==
    [e EXCEPT !.nextBeatTime = @ + 2 * e.secPerBeat, !.beatCount = @ + 1]

\* this.nextBeatTime += this.secPerBeat; this.beatCount++
BeatAdvance(e) ==
    [e EXCEPT !.nextBeatTime = @ + e.secPerBeat, !.beatCount = @ + 1]

RECURSIVE BeatEngine_schedule_noLookahead(_, _, _, _)
\* Mutant of BeatEngine_schedule: only the beats already due are delivered
BeatEngine_schedule_noLookahead(e, k, currentTime, calls) ==
    IF e.nextBeatTime <= currentTime
    THEN BeatEngine_schedule_noLookahead(BeatAdvance(e), k, currentTime,
                                         calls \o NotifyAll(e, k))
    ELSE [engine |-> e, calls |-> calls]

RECURSIVE BeatEngine_schedule(_, _, _, _)
\* BeatEngine.schedule() of engine k at ctx.currentTime: the engine afterwards and the
\* listener calls made, in order
BeatEngine_schedule(e, k, currentTime, calls) ==
    IF e.nextBeatTime < currentTime + SCHEDULE_AHEAD
    THEN BeatEngine_schedule(BeatAdvance(e), k, currentTime, calls \o NotifyAll(e, k))
    ELSE [engine |-> e, calls |-> calls]

-----------------------------------------------------------------------------
(* The beat scheduler alone: SoundSystem.init, startBeat, stopBeat, onBeat, the      *)
(* unsubscribe functions and the interval callbacks, at any times                    *)

\* Bounds of the exploration
MaxSoundNow == 7      \* last tick of the audio clock
MaxEngines == 2       \* engines held at a time
MaxListeners == 2     \* listeners registered on one engine

\* 300 bpm (four ticks per beat) and 600 bpm (two ticks per beat)
SoundBpms == {300, 600}

\* The listener functions handed to onBeat
SoundCbs == {1, 2}

Sound == [engines |-> engines, beatEngine |-> beatEngine]

InitBeat ==
    /\ song = CHOOSE sg \in LaneSongs : sg.barCount = 1
    /\ now = 0
    /\ targets = <<>>
    /\ idCounter = 0
    /\ running = FALSE
    /\ onMissCbs = <<>>
    /\ beatCount = 0
    /\ score = createScoreState
    /\ prevScore = createScoreState
    /\ streak = 0
    /\ tally = NoTally
    /\ op = NoOp
    /\ prevTargets = <<>>
    /\ fate = [id \in {} |-> 0]
    /\ today = <<>>
    /\ SessionFresh

\* What the actions of the beat scheduler leave alone
SoundFrame ==
    UNCHANGED <<song, generated, refVars, handlers, grade, laneVars, scoreVars, laneObs, engineOn, nextBeatTime,
                beatCallbacks, polled, roundVars, challengeVars>>

\* SoundSystem.init(); ok: whether new AudioContext() succeeds
SoundInit(ok) ==
    /\ initialized' = (initialized \/ ok)
    /\ prevSound' = Sound
    /\ delivered' = <<>>
    /\ op' = [NoOp EXCEPT !.name = "init"]
    /\ UNCHANGED <<now, engines, beatEngine>>
    /\ SoundFrame

\* SoundSystem.startBeat(bpm, style)
SoundStartBeat(bpm) ==
    LET kept == LetGo(engines, beatEngine)
    IN  /\ initialized => Len(kept) < MaxEngines
        /\ engines' = IF initialized
                      THEN Append(kept,
                                  [BeatEngine_start(NewBeatEngine(bpm), now + SCHEDULE_AHEAD, 1)
                                     EXCEPT !.lastPoll = now])
                      ELSE engines
        /\ beatEngine' = IF initialized THEN Len(kept) + 1 ELSE beatEngine
        /\ prevSound' = Sound
        /\ delivered' = <<>>
        /\ op' = [NoOp EXCEPT !.name = "startBeat", !.audioNow = now]
        /\ UNCHANGED <<now, initialized>>
        /\ SoundFrame

\* SoundSystem.stopBeat()
SoundStopBeat ==
    /\ engines' = LetGo(engines, beatEngine)
    /\ beatEngine' = Null
    /\ prevSound' = Sound
    /\ delivered' = <<>>
    /\ op' = [NoOp EXCEPT !.name = "stopBeat"]
    /\ UNCHANGED <<now, initialized>>
    /\ SoundFrame

\* SoundSystem.onBeat(cb)
SoundOnBeat(cb) ==
    /\ beatEngine # Null => Len(engines[beatEngine].beatCallbacks) < MaxListeners
    /\ engines' = IF beatEngine = Null THEN engines
                  ELSE [engines EXCEPT ![beatEngine] = BeatEngine_onBeat(@, cb)]
    /\ prevSound' = Sound
    /\ delivered' = <<>>
    /\ op' = [NoOp EXCEPT !.name = "onBeat", !.engine = IF beatEngine = Null THEN 0 ELSE beatEngine]
    /\ UNCHANGED <<now, initialized, beatEngine>>
    /\ SoundFrame

\* The function returned by onBeat(cb) on engine k is called
SoundUnsubscribe(k, cb) ==
    /\ k \in 1..Len(engines)
    /\ \E i \in 1..Len(engines[k].beatCallbacks) : engines[k].beatCallbacks[i] = cb
    /\ engines' = [engines EXCEPT ![k] = BeatEngine_unsubscribe(@, cb)]
    /\ prevSound' = Sound
    /\ delivered' = <<>>
    /\ op' = [NoOp EXCEPT !.name = "unsubscribe", !.engine = k]
    /\ UNCHANGED <<now, initialized, beatEngine>>
    /\ SoundFrame

\* The interval callback of engine k runs: schedule()
SoundPoll(k) ==
    /\ k \in 1..Len(engines)
    /\ engines[k].intervalId # Null
    /\ LET r == BeatEngine_schedule(engines[k], k, now, <<>>)
       IN  /\ engines' = [engines EXCEPT ![k] = [r.engine EXCEPT !.lastPoll = now]]
           /\ delivered' = r.calls
    /\ prevSound' = Sound
    /\ op' = [NoOp EXCEPT !.name = "poll", !.engine = k, !.audioNow = now]
    /\ UNCHANGED <<now, initialized, beatEngine>>
    /\ SoundFrame

\* ctx.currentTime advances by one tick
SoundTick ==
    /\ now < MaxSoundNow
    /\ now' = now + 1
    /\ UNCHANGED <<op, initialized, soundVars>>
    /\ SoundFrame

NextBeat ==
    \/ \E ok \in BOOLEAN : SoundInit(ok)
    \/ \E bpm \in SoundBpms : SoundStartBeat(bpm)
    \/ SoundStopBeat
    \/ \E cb \in SoundCbs : SoundOnBeat(cb)
    \/ \E k \in 1..MaxEngines, cb \in SoundCbs : SoundUnsubscribe(k, cb)
    \/ \E k \in 1..MaxEngines : SoundPoll(k)
    \/ SoundTick

SpecBeat == InitBeat /\ [][NextBeat]_vars

-----------------------------------------------------------------------------
(* Claims about the beat scheduler, checked under SpecBeat *)

\* The engine the last operation worked on, before and after it
Polled == op.name = "poll"
EngineBefore == prevSound.engines[op.engine]
EngineAfter == engines[op.engine]

RECURSIVE CallsFrom(_, _, _)
\* The listener calls for the beats first, first + 1, ..., last - 1 of engine e, beat n at
\* startTime + n * secPerBeat, every listener of a beat before the next beat
CallsFrom(e, first, last) ==
    IF first >= last THEN <<>>
    ELSE [i \in 1..Len(e.beatCallbacks) |->
             [engine |-> op.engine, cb |-> e.beatCallbacks[i], n |-> first,
              t |-> e.startTime + first * e.secPerBeat]]
         \o CallsFrom(e, first + 1, last)

\* C24: across any sequence of scheduler polls, however late or irregular, BeatEngine
\* delivers beat indices 0, 1, 2, ... consecutively with no gap and no repeat, beat n
\* carrying the time startTime + n * secPerBeat; within one poll several due beats are
\* delivered in increasing index order and all listeners of beat n have returned before
\* beat n + 1 is delivered.
C24_BeatsInOrder ==
    /\ Polled =>
          /\ EngineAfter.beatCount >= EngineBefore.beatCount
          /\ delivered = CallsFrom(EngineBefore, EngineBefore.beatCount, EngineAfter.beatCount)
          /\ EngineAfter.nextBeatTime =
                EngineAfter.startTime + EngineAfter.beatCount * EngineAfter.secPerBeat
    /\ ~Polled => delivered = <<>>
    /\ (op.name \in {"onBeat", "unsubscribe"} /\ op.engine # 0) =>
          /\ EngineAfter.beatCount = EngineBefore.beatCount
          /\ EngineAfter.nextBeatTime = EngineBefore.nextBeatTime
    /\ \A k \in 1..Len(engines) :
          engines[k].nextBeatTime =
             engines[k].startTime + engines[k].beatCount * engines[k].secPerBeat

\* C24 witness: a late poll delivered beats 1 and 2 to two different listeners each
C24_Witness ==
    /\ Polled
    /\ EngineBefore.beatCount = 1
    /\ EngineAfter.beatCount = 3
    /\ Len(delivered) = 4
    /\ delivered[1].cb # delivered[2].cb
    /\ delivered[2].n = 1
    /\ delivered[3].n = 2

\* C25: every beat is delivered to its listeners ahead of its deadline: when listeners are
\* notified of beat n the audio clock has not yet passed that beat's time (currentTime <=
\* beatTime), even if the polling callback itself is delayed.
C25_DeliveredAhead ==
    Polled => \A i \in 1..Len(delivered) : op.audioNow <= delivered[i].t

\* C25 amended: a beat is delivered ahead of its time whenever the poll that delivers
\* it runs at most SCHEDULE_AHEAD after the previous poll of the engine, or after its
\* start (a poll delayed longer can deliver overdue beats after their time).  No beat is
\* delivered SCHEDULE_AHEAD or more before its time, and after a poll no beat within the
\* lookahead is left undelivered.
C25_AheadWithinLookahead ==
    Polled =>
        /\ op.audioNow - EngineBefore.lastPoll <= SCHEDULE_AHEAD =>
              \A i \in 1..Len(delivered) : op.audioNow <= delivered[i].t
        /\ \A i \in 1..Len(delivered) : delivered[i].t < op.audioNow + SCHEDULE_AHEAD
        /\ EngineAfter.nextBeatTime >= op.audioNow + SCHEDULE_AHEAD

\* C25 witness: a poll SCHEDULE_AHEAD after the previous one delivered a beat exactly at
\* its time
C25_Witness ==
    /\ Polled
    /\ EngineBefore.beatCount > 0
    /\ op.audioNow - EngineBefore.lastPoll = SCHEDULE_AHEAD
    /\ Len(delivered) > 0
    /\ delivered[1].t = op.audioNow

\* C26: startBeat stops any engine still running and makes the next delivered beat index
\* 0; after stop no beat listener is ever invoked again by that engine; stop is safe when
\* nothing was started or when called twice (no error, no state change).
C26_StartStop ==
    /\ (op.name = "startBeat" /\ initialized) =>
          /\ beatEngine # Null
          /\ engines[beatEngine].beatCount = 0
          /\ engines[beatEngine].intervalId # Null
          /\ engines[beatEngine].nextBeatTime = op.audioNow + SCHEDULE_AHEAD
          /\ \A k \in 1..Len(engines) : k # beatEngine => engines[k].intervalId = Null
    /\ (Polled /\ EngineBefore.beatCount = 0 /\ delivered # <<>>) => delivered[1].n = 0
    /\ Polled => ~EngineBefore.stopped
    /\ (op.name = "stopBeat" /\ prevSound.beatEngine = Null) => Sound = prevSound
    /\ op.name = "stopBeat" =>
          /\ beatEngine = Null
          /\ \A k \in 1..Len(engines) : engines[k].intervalId = Null
    /\ \A k \in 1..Len(engines) :
          BeatEngine_stop(BeatEngine_stop(engines[k])) = BeatEngine_stop(engines[k])

\* C26 witness: the first poll of an engine started by a second startBeat, while the
\* engine of the first startBeat had already delivered beats to a listener
C26_Witness ==
    /\ Polled
    /\ EngineBefore.startTime > SCHEDULE_AHEAD
    /\ EngineBefore.beatCount = 0
    /\ Len(delivered) > 0
    /\ delivered[1].n = 0
    /\ Len(engines) = 1

-----------------------------------------------------------------------------
(* Further claims about the dance session, checked under Spec *)

\* C27: if the audio clock is unavailable (AudioContext creation fails in
\* SoundSystem.init), the session degrades without error: startBeat and onBeat do
\* nothing, no beat event fires, the lane never holds a target, every tap's tryHit
\* returns null, no miss is emitted, and the score state keeps its initial zero values so
\* nothing is submitted.
C27_SilentSession ==
    (audioStarted /\ ~initialized) =>
        /\ ~engineOn
        /\ beatCallbacks = 0
        /\ beatCount = 0
        /\ beatsScheduled = 0
        /\ ~roundEndTriggered
        /\ ~timerArmed
        /\ targets = <<>>
        /\ idCounter = 0
        /\ op.rating = "none"
        /\ op.points = 0
        /\ tally = NoTally
        /\ score = createScoreState
        /\ bonuses = <<>>
        /\ submitted = <<>>

\* C27 witness: a session without audio was tapped, ran frames for two ticks and was
\* left through the exit button
C27_Witness ==
    /\ audioStarted
    /\ ~initialized
    /\ running = FALSE
    /\ now = 2
    /\ op.name = "exit"
    /\ screen = "home"
    /\ submitted = <<>>

-----------------------------------------------------------------------------
(* Taps alone: tryHit and getTapZone at every x and y on and around the canvas,    *)
(* on a lane that holds at most one target                                          *)

\* From one canvas width left of the canvas to one canvas width right of it
WideXs == (0 - CanvasW)..(2 * CanvasW)
WideYs == {0 - 1, 0, CanvasH - 1, CanvasH + 1}

\* An empty lane, or one active target due now in one of the six zones
TapLanes ==
    {<<>>} \cup { <<[id |-> 0, zone |-> z, hitTime |-> 0, state |-> "active"]>> : z \in TapZones }

InitTap ==
    /\ song = CHOOSE sg \in LaneSongs : sg.barCount = 1
    /\ now = 0
    /\ beatCount = 0
    /\ targets \in TapLanes
    /\ idCounter = Len(targets)
    /\ running = TRUE
    /\ onMissCbs = <<>>
    /\ score = createScoreState
    /\ prevScore = createScoreState
    /\ streak = 0
    /\ tally = NoTally
    /\ op = NoOp
    /\ prevTargets = targets
    /\ fate = [id \in IdsOf(targets) |->
                  [state |-> "active", hits |-> 0, missed |-> 0, reported |-> FALSE]]
    /\ today = <<>>
    /\ SessionFresh

\* RhythmEngine.getTapZone(tapX, tapY)
TapZoneOf(tapX, tapY) ==
    /\ op' = [NoOp EXCEPT !.name = "getTapZone", !.tapX = tapX, !.tapY = tapY,
                          !.result = [NoResult EXCEPT !.zone = getTapZone(tapX, tapY)]]
    /\ prevTargets' = targets
    /\ UNCHANGED <<song, generated, refVars, handlers, soundVars, grade, now, laneVars, scoreVars, sessionVars, fate>>

NextTap ==
    \/ \E x \in WideXs, y \in WideYs : LaneTap(x, y, now)
    \/ \E x \in WideXs, y \in WideYs : TapZoneOf(x, y)

SpecTap == InitTap /\ [][NextTap]_vars

\* The column the claim assigns to a tap
ClaimedColumn(x) ==
    IF x < 0 \/ 3 * x < CanvasW THEN "left"
    ELSE IF x >= CanvasW \/ 3 * x >= 2 * CanvasW THEN "right"
    ELSE "center"

\* The active targets before the tap that stand in that column
InColumn(col) ==
    { i \in 1..Len(prevTargets) :
        prevTargets[i].state = "active" /\ zoneColumn(prevTargets[i].zone) = col }

\* C28: column mapping is total and clamps: for every tapX, including tapX < 0 and
\* tapX >= canvas width, tryHit and getTapZone map the tap to exactly one of left, center
\* and right without throwing: below one third of the width (also negative) to left, at
\* or beyond two thirds (also beyond the right edge) to right, otherwise center.
C28_ColumnClamps ==
    /\ op.name = "getTapZone" =>
          /\ Len(op.result.zone) = 2
          /\ op.result.zone[1] \in {"upper", "lower"}
          /\ op.result.zone[2] = ClaimedColumn(op.tapX)
    /\ op.name = "tryHit" =>
          /\ op.result # NoResult <=> InColumn(ClaimedColumn(op.tapX)) # {}
          /\ op.result # NoResult => zoneColumn(op.result.zone) = ClaimedColumn(op.tapX)

\* C28 witness: a tap one canvas width left of the canvas hit the target of a left zone
C28_Witness ==
    /\ op.name = "tryHit"
    /\ op.tapX = 0 - CanvasW
    /\ op.result # NoResult
    /\ zoneColumn(op.result.zone) = "left"
    /\ \E i \in 1..Len(targets) : targets[i].state = "hit"

-----------------------------------------------------------------------------
(* The results alone: rounds of every mix of perfects, goods and misses, at the      *)
(* moment the round-end timer fires                                                   *)

\* n more judgments of one rating registered on s (every call counts an attempt,
\* so the score never stays as it was)
RECURSIVE Registered(_, _, _)
Registered(s, rating, n) ==
    LET next == registerRhythmHit(s, rating).score
    IN  IF n = 0 \/ next = s THEN s ELSE Registered(next, rating, n - 1)

\* The score after a round of m misses, then g goods, then p perfects
RoundScore(p, g, m) ==
    Registered(Registered(Registered(createScoreState, "miss", m), "good", g), "perfect", p)

\* The dance screen when every beat of the song has been judged and the timer is due
InitGrade ==
    /\ song = CHOOSE sg \in LaneSongs : sg.barCount = 1
    /\ now = 0
    /\ targets = <<>>
    /\ idCounter = 0
    /\ running = TRUE
    /\ onMissCbs = <<>>
    /\ beatCount = 0
    /\ \E p \in 0..MaxGradeAttempts, g \in 0..MaxGradeAttempts, m \in 0..MaxGradeAttempts :
          /\ p + g + m <= MaxGradeAttempts
          /\ score = RoundScore(p, g, m)
    /\ prevScore = score
    /\ streak = 0
    /\ tally = NoTally
    /\ op = NoOp
    /\ prevTargets = <<>>
    /\ fate = [id \in {} |-> 0]
    /\ today = <<>>
    /\ generated = <<>>
    /\ refTargets = <<>>
    /\ refFate = [id \in {} |-> 0]
    /\ refScore = createScoreState
    /\ updateCallbacks = 1
    /\ pointerHandlers = 1
    /\ grade = ""
    /\ SoundFresh
    /\ audioStarted = TRUE
    /\ initialized = TRUE
    /\ engineOn = TRUE
    /\ nextBeatTime = 0
    /\ beatCallbacks = 1
    /\ beatsScheduled = 0
    /\ roundEndTriggered = TRUE
    /\ roundEndTimerId = 0
    /\ timerArmed = TRUE
    /\ peakCombo = ONE
    /\ completion = "pending"
    /\ challengeProgress = NullProgress
    /\ challengeRewarded = FALSE
    /\ screen = "dance"
    /\ overlay = "none"
    /\ submitted = <<>>
    /\ bonuses = <<>>
    /\ polled = FALSE
    /\ frameGap = 0

NextGrade ==
    \/ RoundEnd
    \/ OverlayShown

SpecGrade == InitGrade /\ [][NextGrade]_vars

\* The judgments of the round that landed: perfectHits + goodHits
Landed == score.perfectHits + score.goodHits

\* C29: the results overlay of a round that ended by itself carries the grade of
\* accuracy = (perfectHits + goodHits) / totalHitAttempts: S from 19/20 up, A from
\* 17/20, B from 7/10, C from 1/2, D below, each boundary included; a round without
\* any attempt has accuracy 0 and grade D. No grade exists before the overlay.
C29_GradeFromAccuracy ==
    /\ overlay # "shown" => grade = ""
    /\ overlay = "shown" /\ score.totalHitAttempts = 0 => grade = "D"
    /\ overlay = "shown" /\ score.totalHitAttempts > 0 =>
          LET n == score.totalHitAttempts
          IN  /\ grade = "S" <=> 20 * Landed >= 19 * n
              /\ grade = "A" <=> 20 * Landed >= 17 * n /\ 20 * Landed < 19 * n
              /\ grade = "B" <=> 10 * Landed >= 7 * n /\ 20 * Landed < 17 * n
              /\ grade = "C" <=> 2 * Landed >= n /\ 10 * Landed < 7 * n
              /\ grade = "D" <=> 2 * Landed < n

\* C29 witness: a round of 20 judgments of which 19 landed, exactly 0.95, is graded S
C29_Witness ==
    /\ overlay = "shown"
    /\ score.totalHitAttempts = 20
    /\ Landed = 19
    /\ grade = "S"

\* C30: stop() and destroy() empty the lane and call no listener; a target that has
\* left the lane gets no event any more; and while the engine is not running the lane
\* stays empty: update reports no miss, tryHit returns null, onBeatFired spawns nothing.
C30_StopSilences ==
    /\ [](~running => targets = <<>>)
    /\ [][/\ op'.name \in {"stop", "destroy"} =>
                /\ ~running'
                /\ targets' = <<>>
                /\ op'.misses = <<>>
                /\ op'.result = NoResult
                /\ fate' = fate
          /\ \A id \in DOMAIN fate \ IdsOf(targets) : fate'[id] = fate[id]
          /\ ~running =>
                /\ targets' = <<>>
                /\ op'.misses = <<>>
                /\ op'.result = NoResult
                /\ fate' = fate]_vars

\* C30 witness: a target was taken out of the lane while active, and an update with a
\* listener registered, later than the end of its window, found the engine stopped
C30_Witness ==
    /\ ~running
    /\ op.name = "update"
    /\ onMissCbs # <<>>
    /\ op.audioNow > MaxBeatTime + TRAVEL_BEATS * secPerBeat(song.bpm) + GOOD_WINDOW
    /\ \E id \in DOMAIN fate : fate[id].state = "active"

\* C31: once the cleanup of the dance screen has run, whenever that was, nothing of the
\* session is left to fire: the miss listener, the beat listener, the frame listener and
\* the pointer handler are removed, the round-end timer is cleared, the scheduler
\* interval is stopped and the lane is empty; and from then on no step changes the score
\* state, the judgments counted, or what was submitted.
C31_CleanupCancels ==
    /\ [](screen # "dance" =>
            /\ onMissCbs = <<>>
            /\ beatCallbacks = 0
            /\ updateCallbacks = 0
            /\ pointerHandlers = 0
            /\ ~timerArmed
            /\ ~engineOn
            /\ ~running
            /\ targets = <<>>)
    /\ [][screen # "dance" =>
            /\ score' = score
            /\ tally' = tally
            /\ streak' = streak
            /\ bonuses' = bonuses
            /\ submitted' = submitted
            /\ now' = now]_vars

\* C31 witness: the screen was left while the round-end timer was pending, with
\* judgments registered and the timer's due time still ahead
C31_Witness ==
    /\ screen # "dance"
    /\ roundEndTriggered
    /\ roundEndTimerId # Null
    /\ now < roundEndTimerId
    /\ overlay = "none"
    /\ score.totalHitAttempts > 0

\* A pointerdown for which tryHit returned null
NullTap ==
    /\ \E x \in TapXs, y \in {CanvasH}, ok \in BOOLEAN : PointerDown(x, y, ok)
    /\ op'.rating = "none"

\* C32: a tap for which tryHit returns null changes no field of the score state, nothing
\* of the challenge progress and its reward, no target, and counts as no judgment.
C32_NullTapHasNoEffect ==
    [][NullTap =>
          /\ score' = score
          /\ challengeProgress' = challengeProgress
          /\ challengeRewarded' = challengeRewarded
          /\ targets' = targets
          /\ peakCombo' = peakCombo
          /\ tally' = tally
          /\ streak' = streak
          /\ submitted' = submitted]_vars

\* C32 witness: after a tap that hit nothing, with judgments registered before it, the
\* score is the one before the tap and a target due within a beat is still active
C32_Witness ==
    /\ op.name = "pointerdown"
    /\ op.rating = "none"
    /\ score = prevScore
    /\ score.totalHitAttempts > 0
    /\ \E i \in 1..Len(targets) :
          targets[i].state = "active" /\ targets[i].hitTime <= now + secPerBeat(song.bpm)

\* The judgments the lane has handed to the session: hits returned by tryHit and
\* onMiss calls of update
Judgments == tally.perfect + tally.good + tally.miss

\* A step that handles exactly one judgment
OneJudgment == Judgments' = Judgments + 1

\* C33: every judgment of the session is registered exactly once in the score state, so
\* totalHitAttempts is the number of judged targets, and is then applied, once, to the
\* challenge progress, which sees the totalScore that already includes the judgment.
C33_RegisterThenTrack ==
    /\ [](/\ score.totalHitAttempts = Judgments
          /\ score.perfectHits = tally.perfect
          /\ score.goodHits = tally.good)
    /\ [][OneJudgment /\ ~challengeProgress.isNull /\ ~challengeProgress.completed =>
            LET reward == IF challengeRewarded' /\ ~challengeRewarded
                          THEN Challenge.rewardPoints ELSE 0
                registered == score'.totalScore - reward
            IN  /\ challengeProgress'.scoreReached <=>
                       (challengeProgress.scoreReached \/ registered >= ScoreTarget)
                /\ challengeProgress'.consecutivePerfects =
                       IF tally'.perfect > tally.perfect
                       THEN challengeProgress.consecutivePerfects + 1 ELSE 0]_vars

\* C33 witness: the hit that took totalScore over the score target of the challenge was
\* seen by the challenge progress at once
C33_Witness ==
    /\ op.name = "pointerdown"
    /\ op.rating # "none"
    /\ prevScore.totalScore < ScoreTarget
    /\ score.totalScore >= ScoreTarget
    /\ challengeProgress.scoreReached
    /\ ~challengeRewarded

\* No song of the lane runs spawns more targets than this
MaxTargets == 2

\* The target with this id is in the lane and active
ActiveInLane(id) ==
    \E i \in 1..Len(targets) : targets[i].id = id /\ targets[i].state = "active"

\* The target with this id has been judged: hit by a tap, or missed by an update
JudgedOnce(id) ==
    /\ id \in DOMAIN fate
    /\ \/ fate[id].state = "hit" /\ fate[id].hits = 1 /\ fate[id].missed = 0
       \/ fate[id].state = "missed" /\ fate[id].missed = 1 /\ fate[id].hits = 0

\* C34: on a lane that is not stopped and whose update keeps being called with an
\* advancing audio clock, no target stays active forever: every target spawned is again
\* and again found not active, and a spawned target that is not active has been judged,
\* once, as hit or as missed; and the update that makes it missed notifies the listeners.
C34_EveryTargetJudged ==
    /\ \A id \in 0..(MaxTargets - 1) : []<>(~ActiveInLane(id))
    /\ [](\A id \in DOMAIN fate : ~ActiveInLane(id) => JudgedOnce(id))
    /\ [][\A id \in DOMAIN fate :
             fate[id].state = "active" /\ fate'[id].state = "missed" /\ onMissCbs # <<>>
                 => fate'[id].reported]_vars

\* C34 witness: of the targets spawned, one was hit and one was missed and reported, and
\* none is left in the lane
C34_Witness ==
    /\ running
    /\ targets = <<>>
    /\ \E id \in DOMAIN fate : fate[id].state = "hit"
    /\ \E id \in DOMAIN fate : fate[id].state = "missed" /\ fate[id].reported

-----------------------------------------------------------------------------
(* Frames against the audio clock: two engines, each with its listeners and its score  *)
(* state, get the same beats and the same taps at the same audio times; update is      *)
(* called on the first at any times, on the second only once, at the end               *)

InitFrames ==
    /\ song \in LaneSongs
    /\ now = 0
    /\ beatCount = 0
    /\ targets = <<>>
    /\ idCounter = 0
    /\ running = TRUE
    /\ onMissCbs = <<1>>
    /\ score = createScoreState
    /\ prevScore = createScoreState
    /\ streak = 0
    /\ tally = NoTally
    /\ op = NoOp
    /\ prevTargets = <<>>
    /\ fate = [id \in {} |-> 0]
    /\ today = <<>>
    /\ SessionFresh

\* BeatEngine.schedule: beat n is delivered with the time n * secPerBeat after the start
FramesBeatTime(n) == n * secPerBeat(song.bpm)

\* The first audio time later than the grace period of every target of the song
FramesEnd == FramesBeatTime(TOTAL_BEATS(song) - 1) + TRAVEL_BEATS * secPerBeat(song.bpm)
                 + GRACE_SEC + 1

\* The audio times of taps and frames: from shortly before the first target can be hit,
\* never going back
FramesNows == { a \in (FirstNow..FramesEnd) : a >= now }

\* onBeatFired(beatNum, beatTime) on both engines
FramesBeat(beatTime) ==
    LET r == onBeatFired(targets, idCounter, running, song, beatCount, beatTime)
        ref == onBeatFired(refTargets, idCounter, running, song, beatCount, beatTime)
    IN  /\ op.name # "finish"
        /\ beatCount < TOTAL_BEATS(song)
        /\ beatCount' = beatCount + 1
        /\ targets' = r.targets
        /\ refTargets' = ref.targets
        /\ idCounter' = r.idCounter
        /\ op' = [NoOp EXCEPT !.name = "beat", !.beatNum = beatCount, !.beatTime = beatTime]
        /\ prevTargets' = targets
        /\ fate' = FateAfter(fate, targets, r.targets, NoResult, <<>>)
        /\ refFate' = FateAfter(refFate, refTargets, ref.targets, NoResult, <<>>)
        /\ UNCHANGED <<song, generated, handlers, soundVars, grade, now, running, onMissCbs,
                       scoreVars, refScore, sessionVars>>

\* tryHit(tapX, tapY, audioNow) on both engines, the audio clock reading audioNow
FramesTap(tapX, tapY, audioNow) ==
    LET r == tryHit(targets, tapX, tapY, audioNow)
        ref == tryHit(refTargets, tapX, tapY, audioNow)
    IN  /\ op.name # "finish"
        /\ now' = audioNow
        /\ targets' = r.targets
        /\ refTargets' = ref.targets
        /\ op' = [NoOp EXCEPT !.name = "tryHit", !.tapX = tapX, !.tapY = tapY,
                              !.audioNow = audioNow, !.result = r.result,
                              !.reference = ref.result]
        /\ prevTargets' = targets
        /\ fate' = FateAfter(fate, targets, r.targets, r.result, <<>>)
        /\ refFate' = FateAfter(refFate, refTargets, ref.targets, ref.result, <<>>)
        /\ score' = Judged(Judging, Challenge, r.result).score
        /\ refScore' = Judged([Judging EXCEPT !.score = refScore], Challenge, ref.result).score
        /\ prevScore' = score
        /\ UNCHANGED <<song, generated, handlers, soundVars, grade, idCounter, running,
                       onMissCbs, beatCount, streak, tally, sessionVars>>

\* A frame: update(dt, audioNow) on the first engine only
FramesUpdate(audioNow) ==
    LET u == update(targets, audioNow, onMissCbs)
    IN  /\ op.name # "finish"
        /\ now' = audioNow
        /\ targets' = u.targets
        /\ op' = [NoOp EXCEPT !.name = "update", !.audioNow = audioNow, !.misses = u.misses]
        /\ prevTargets' = targets
        /\ fate' = FateAfter(fate, targets, u.judged, NoResult, u.misses)
        /\ score' = MissAll(Judging, Challenge, Len(u.misses)).score
        /\ prevScore' = score
        /\ UNCHANGED <<song, generated, refVars, handlers, soundVars, grade, idCounter,
                       running, onMissCbs, beatCount, streak, tally, sessionVars>>

\* The last frame, later than every grace period: update on both engines
FramesFinish ==
    LET u == update(targets, FramesEnd, onMissCbs)
        ref == update(refTargets, FramesEnd, onMissCbs)
    IN  /\ op.name # "finish"
        /\ now' = FramesEnd
        /\ targets' = u.targets
        /\ refTargets' = ref.targets
        /\ op' = [NoOp EXCEPT !.name = "finish", !.audioNow = FramesEnd, !.misses = u.misses]
        /\ prevTargets' = targets
        /\ fate' = FateAfter(fate, targets, u.judged, NoResult, u.misses)
        /\ refFate' = FateAfter(refFate, refTargets, ref.judged, NoResult, ref.misses)
        /\ score' = MissAll(Judging, Challenge, Len(u.misses)).score
        /\ refScore' = MissAll([Judging EXCEPT !.score = refScore], Challenge,
                               Len(ref.misses)).score
        /\ prevScore' = score
        /\ UNCHANGED <<song, generated, handlers, soundVars, grade, idCounter, running,
                       onMissCbs, beatCount, streak, tally, sessionVars>>

NextFrames ==
    \/ FramesBeat(FramesBeatTime(beatCount))
    \/ \E x \in TapXs, y \in {CanvasH}, a \in FramesNows : FramesTap(x, y, a)
    \/ \E a \in FramesNows : FramesUpdate(a)
    \/ FramesFinish

SpecFrames == InitFrames /\ [][NextFrames]_vars

\* C35: with the same targets and the same taps at the same audio times on a monotonic
\* clock, every tryHit returns what it returns on an engine whose update is never called
\* in between, a target is hit on the one engine exactly if it is hit on the other, and
\* after the last frame every target has the same final state, hit or missed, on both.
C35_FramesDoNotDecide ==
    /\ op.name = "tryHit" => op.result = op.reference
    /\ DOMAIN fate = DOMAIN refFate
    /\ \A id \in DOMAIN fate :
          /\ fate[id].state = "hit" <=> refFate[id].state = "hit"
          /\ fate[id].hits = refFate[id].hits
    /\ op.name = "finish" =>
          \A id \in DOMAIN fate :
              /\ fate[id].state \in {"hit", "missed"}
              /\ fate[id].state = refFate[id].state
              /\ fate[id].missed = refFate[id].missed

\* C35 witness: a tap hit a target after frames had already missed and removed another
\* target that the engine without frames still holds
C35_Witness ==
    /\ op.name = "tryHit"
    /\ op.result # NoResult
    /\ op.reference = op.result
    /\ \E id \in DOMAIN fate : fate[id].state = "missed" /\ refFate[id].state = "active"
    /\ Len(refTargets) > Len(targets)

\* The targets a tap found active in the lane although their grace period had ended
\* before the time of the tap: their miss has not been registered yet
Overdue ==
    { i \in 1..Len(prevTargets) :
          /\ prevTargets[i].state = "active"
          /\ prevTargets[i].hitTime + GRACE_SEC < op.audioNow }

\* C36: the miss of a target whose grace period ended before the time of a tap is
\* registered before the hit of that tap, so that after the last frame combo,
\* comboMultiplier and crowdHype are the same whenever the frames have run.
C36_AudioClockOrder ==
    /\ op.name = "tryHit" /\ op.result # NoResult => Overdue = {}
    /\ op.name = "finish" =>
          /\ score.combo = refScore.combo
          /\ score.comboMultiplier = refScore.comboMultiplier
          /\ score.crowdHype = refScore.crowdHype

\* C36, what does happen: a tap hit a target while the miss of an earlier target, whose
\* grace period had ended before the tap, was still to be registered
C36_HitBeforeOverdueMiss ==
    /\ op.name = "tryHit"
    /\ op.result # NoResult
    /\ Overdue # {}
    /\ score.combo = 1
    /\ score.totalHitAttempts = 1

-----------------------------------------------------------------------------
(* The reward of the daily challenge (dance.ts 112-123, 194-218) *)

\* The reward this step added to crowdHype, in fixed point
RewardAdded == IF ~challengeRewarded /\ challengeRewarded' THEN Challenge.rewardPoints * ONE ELSE 0

\* A step that called updateChallengeUI: a judgment, or the settling of the completion
\* promise
Updated == Judgments' # Judgments \/ completion' # completion

\* C37: the reward of the daily challenge is added to crowdHype exactly once in a session,
\* by the update that finds the progress completed, however many judgments and updates
\* follow; and when the persistence layer reports the challenge as completed today, no
\* progress is tracked and no reward is ever added in the session.
C37_RewardOnce ==
    /\ [](/\ challengeProgress.isNull => ~challengeRewarded
          /\ ~challengeProgress.isNull =>
                (challengeProgress.completed <=> challengeRewarded))
    /\ [][/\ challengeRewarded => challengeRewarded'
          /\ (completion = "settled" /\ challengeProgress.isNull) =>
                challengeProgress'.isNull
          /\ RewardAdded # 0 => Updated
          /\ Updated =>
                score'.crowdHype = score.crowdHype + op'.points * ONE + RewardAdded]_vars

\* C37 witness: a tap was rated and registered after the reward had been added, and
\* added nothing but its points
C37_Witness ==
    /\ challengeRewarded
    /\ op.name = "pointerdown"
    /\ op.rating # "none"
    /\ score.crowdHype = prevScore.crowdHype + op.points * ONE
    /\ prevScore.crowdHype >= Challenge.rewardPoints * ONE

\* A judgment in a session whose challenge was reported as completed today
C37_DoneToday ==
    /\ completion = "settled"
    /\ challengeProgress.isNull
    /\ op.name = "pointerdown"
    /\ op.rating # "none"

-----------------------------------------------------------------------------
(* The counters of the score state (scoring.ts: createScoreState, registerRhythmHit,
   tickScore) *)

\* C38: in every state reached from createScoreState by registerRhythmHit and tickScore
\* calls, consecutivePerfects <= combo <= perfectHits + goodHits <= totalHitAttempts, and
\* none of perfectHits, goodHits, totalHitAttempts and crowdHype ever decreases.
C38_CounterOrder ==
    /\ [](/\ score.consecutivePerfects <= score.combo
          /\ score.combo <= score.perfectHits + score.goodHits
          /\ score.perfectHits + score.goodHits <= score.totalHitAttempts)
    /\ [][/\ score'.perfectHits >= score.perfectHits
          /\ score'.goodHits >= score.goodHits
          /\ score'.totalHitAttempts >= score.totalHitAttempts
          /\ score'.crowdHype >= score.crowdHype]_vars

\* C38 witness: good, miss, good, perfect and then a tick: every inequality is strict
C38_Witness ==
    /\ op.name = "tick"
    /\ score.consecutivePerfects = 1
    /\ score.combo = 2
    /\ score.perfectHits + score.goodHits = 3
    /\ score.totalHitAttempts = 4
    /\ score.crowdHype > 0

-----------------------------------------------------------------------------
(* The natural round end (dance.ts 301-310, 476-493) *)

\* The targets of the lane nobody has judged yet
ActiveTargets == { i \in 1..Len(targets) : targets[i].state = "active" }

\* The round-end timer fires in this step: showResultsOverlay stops the lane
NaturalEnd == timerArmed /\ ~timerArmed' /\ op'.name = "roundEnd"

\* C39: when the round-end timer stops the lane, (4 x secPerBeat + 0.5) s after the beat
\* callback that reached TOTAL_BEATS, every target spawned for a beat of the song has been
\* hit or auto-missed, so that stop() discards no target of the song and the accuracy
\* shown counts every one of them; frames run in every tick.
C39_SongJudgedAtRoundEnd ==
    [][NaturalEnd =>
          /\ ActiveTargets \subseteq LateTargets
          /\ score.totalHitAttempts = idCounter - Cardinality(ActiveTargets)
          /\ score'.totalHitAttempts = score.totalHitAttempts]_vars

\* C39 witness: the round has ended by its timer, a target of the song was auto-missed,
\* another was hit, and the targets stop() discarded were spawned after the last beat
C39_Witness ==
    /\ op.name = "roundEnd"
    /\ ~running
    /\ tally.miss > 0
    /\ tally.perfect + tally.good > 0
    /\ score.totalHitAttempts = Judgments
    /\ Judgments < idCounter

=============================================================================
